---- MODULE Spec2Model ----
(***************************************************************************)
(* image-to-pdf: natural ordering, pattern grouping and batch conversion.  *)
(*                                                                         *)
(* Text (file names, paths, group names) is a sequence of one-character    *)
(* strings, so that splitting, matching and comparing are computed on the  *)
(* characters as the Python code computes them.                            *)
(***************************************************************************)
EXTENDS Integers, Sequences, FiniteSets, TLC

VARIABLES
    phase,              \* "ready" before the call under study, "done" after it
    sort_in,            \* the list handed to sorted(..., key=natural_sort_key)
    sort_out,           \* the list it returned
    arg_folder_path,    \* group_images_by_pattern: the folder key
    arg_image_paths,    \* group_images_by_pattern: the image list
    grouping_pattern,   \* ImageScanner.grouping_pattern (deprecated single pattern)
    grouping_patterns,  \* ImageScanner.grouping_patterns (priority order)
    group_result,       \* what group_images_by_pattern returned or that it raised
    image_groups,       \* batch_convert: the mapping group name -> image list
    output_directory,   \* batch_convert: the explicit output directory, <<>> for None
    progress_callback,  \* batch_convert: TRUE when a callback is given
    delete_images,      \* batch_convert: the delete-after-convert flag
    include_root,       \* settings.PDF_INCLUDE_ROOT_FOLDER_NAME
    index,              \* batch_convert: the position of the group in turn
    created_pdfs,       \* batch_convert: the list it builds and returns
    events,             \* what batch_convert did, in order: conversions, deletions, callbacks
    deleted,            \* the image files batch_convert has unlinked
    faults,             \* the failures the environment has produced so far
    conv_image_paths,   \* the image list of one group, as the GUI shows it and the converter gets it
    conv_fit_page,      \* settings.PDF_FIT_PAGE_TO_IMAGE
    conv_fit_to_page,   \* convert_images_to_pdf: the fit_to_page argument
    conv_page_size,     \* settings.PDF_PAGE_SIZE, << width, height >>
    conv_index,         \* convert_images_to_pdf: the position of the image in turn
    conv_pages,         \* the pages the canvas holds, in the order showPage closed them
    conv_moves,         \* how many times the user has moved an image up or down
    files,              \* the file system: the directories and files that exist
    scan_results,       \* ImageScanner.scan_results
    scan_log,           \* the scan_directory calls so far: root, outcome, directories listed
    heap_records,       \* the pattern records (dict objects) that exist, by identity
    heap_lists,         \* the pattern lists (list objects) that exist, by identity
    config_patterns,    \* ConfigManager.config["pdf_grouping_patterns"]: which list object
    config_call,        \* the last ConfigManager call: its name, arguments and return value
    config_file,        \* the configuration file: missing, unreadable, or its JSON content
    reorder_call,       \* the last reorder_images call: its arguments and how it ended
    app_scan_results,   \* ImageToPDFApp.scan_results: the group mapping the GUI shows
    fit_image_size,     \* the pixel size << width, height >> of the image to lay out
    fit_rectangle       \* the page and the rectangle the layout computed for it

(***************************************************************************)
(* Characters.  CharOrder lists the characters the model uses in           *)
(* increasing code point order; Python compares str values by code point.  *)
(***************************************************************************)
CharOrder ==
    << "-", ".", "/", "0", "1", "2", "3", "4", "5", "6", "7", "8", "9",
       "A", "B", "G", "N", "P", "_", "a", "b", "d", "e", "f", "g", "h", "j", "n",
       "o", "p", "r", "t", "x", "y" >>

DigitChars == << "0", "1", "2", "3", "4", "5", "6", "7", "8", "9" >>

Ord(c) == CHOOSE i \in DOMAIN CharOrder : CharOrder[i] = c

IsDigitChar(c) == \E i \in DOMAIN DigitChars : DigitChars[i] = c

DigitVal(c) == (CHOOSE i \in DOMAIN DigitChars : DigitChars[i] = c) - 1

LowerChar(c) ==
    CASE c = "A" -> "a" [] c = "B" -> "b" [] c = "G" -> "g" [] c = "N" -> "n"
      [] c = "P" -> "p" [] OTHER -> c

Lower(s) == [i \in DOMAIN s |-> LowerChar(s[i])]

\* str.isdigit(): non-empty and every character a digit
IsDigitStr(s) == s # <<>> /\ \A i \in DOMAIN s : IsDigitChar(s[i])

\* int(s) of a digit string
RECURSIVE IntOf(_)
IntOf(s) ==
    IF s = <<>> THEN 0
    ELSE IntOf(SubSeq(s, 1, Len(s) - 1)) * Len(DigitChars) + DigitVal(s[Len(s)])

\* str < str: lexicographic by code point, a proper prefix is smaller
RECURSIVE StrLess(_, _)
StrLess(a, b) ==
    IF b = <<>> THEN FALSE
    ELSE IF a = <<>> THEN TRUE
    ELSE IF a[1] # b[1] THEN Ord(a[1]) < Ord(b[1])
    ELSE StrLess(Tail(a), Tail(b))

(***************************************************************************)
(* natural_sort_key                                                        *)
(***************************************************************************)
\* index of the last character of the digit run that starts at i
RECURSIVE DigitRunEnd(_, _)
DigitRunEnd(text, i) ==
    IF i < Len(text) /\ IsDigitChar(text[i + 1]) THEN DigitRunEnd(text, i + 1) ELSE i

\* re.split(r"(\d+)", text): the pieces between digit runs and the digit runs
\* themselves, alternating, starting and ending with a (possibly empty) piece
RECURSIVE ReSplitFrom(_, _, _, _)
ReSplitFrom(text, i, buf, acc) ==
    IF i > Len(text) THEN Append(acc, buf)
    ELSE IF IsDigitChar(text[i])
         THEN LET j == DigitRunEnd(text, i)
              IN  ReSplitFrom(text, j + 1, <<>>, acc \o << buf, SubSeq(text, i, j) >>)
         ELSE ReSplitFrom(text, i + 1, Append(buf, text[i]), acc)

re_split_digits(text) == ReSplitFrom(text, 1, <<>>, <<>>)

IntElem(n) == [isint |-> TRUE, n |-> n, s |-> <<>>]
StrElem(s) == [isint |-> FALSE, n |-> 0, s |-> s]

\* a plausible slip: digit runs kept as text
natural_sort_key_text(text) ==
    LET parts == re_split_digits(text)
    IN  [k \in DOMAIN parts |-> StrElem(Lower(parts[k]))]

\* [int(c) if c.isdigit() else c.lower() for c in re.split(r"(\d+)", text)]
natural_sort_key(text) ==
    LET parts == re_split_digits(text)
    IN  [k \in DOMAIN parts |->
            IF IsDigitStr(parts[k]) THEN IntElem(IntOf(parts[k]))
            ELSE StrElem(Lower(parts[k]))]

\* element < element.  The pieces of re.split alternate, text at odd positions and
\* digit runs at even ones, so two keys never meet an int with a str (Python would
\* raise TypeError there).
ElemLess(a, b) ==
    IF a.isint /\ b.isint THEN a.n < b.n
    ELSE IF ~a.isint /\ ~b.isint THEN StrLess(a.s, b.s)
    ELSE FALSE

\* list < list: the first position where the elements differ decides, and a
\* proper prefix is smaller
RECURSIVE KeyLess(_, _)
KeyLess(k1, k2) ==
    IF k2 = <<>> THEN FALSE
    ELSE IF k1 = <<>> THEN TRUE
    ELSE IF k1[1] # k2[1] THEN ElemLess(k1[1], k2[1])
    ELSE KeyLess(Tail(k1), Tail(k2))

NaturalLess(a, b) == KeyLess(natural_sort_key(a), natural_sort_key(b))

\* sorted(list, key=natural_sort_key): stable, so an element goes after every
\* element already placed whose key is not greater
RECURSIVE InsertByKey(_, _)
InsertByKey(done, x) ==
    IF done = <<>> THEN << x >>
    ELSE IF NaturalLess(x, done[Len(done)])
         THEN Append(InsertByKey(SubSeq(done, 1, Len(done) - 1), x), done[Len(done)])
         ELSE Append(done, x)

RECURSIVE sorted_natural(_)
sorted_natural(list) ==
    IF list = <<>> THEN <<>>
    ELSE InsertByKey(sorted_natural(SubSeq(list, 1, Len(list) - 1)), list[Len(list)])

(***************************************************************************)
(* Paths (pathlib.Path on POSIX text)                                      *)
(***************************************************************************)
Slash == "/"

\* position of the last "/" of s, 0 when there is none
RECURSIVE LastSlash(_, _)
LastSlash(s, i) ==
    IF i = 0 THEN 0 ELSE IF s[i] = Slash THEN i ELSE LastSlash(s, i - 1)

\* Path(p).name for a path that does not end with "/"
PathName(p) == SubSeq(p, LastSlash(p, Len(p)) + 1, Len(p))

\* Path(p).parts of a relative path: the components between "/", the empty ones
\* dropped; Path("").parts is ()
RECURSIVE PartsFrom(_, _, _, _)
PartsFrom(p, i, buf, acc) ==
    IF i > Len(p) THEN IF buf = <<>> THEN acc ELSE Append(acc, buf)
    ELSE IF p[i] = Slash
         THEN PartsFrom(p, i + 1, <<>>, IF buf = <<>> THEN acc ELSE Append(acc, buf))
         ELSE PartsFrom(p, i + 1, Append(buf, p[i]), acc)

PathParts(p) == PartsFrom(p, 1, <<>>, <<>>)

\* sep.join(parts)
RECURSIVE JoinWith(_, _)
JoinWith(parts, sep) ==
    IF parts = <<>> THEN <<>>
    ELSE IF Len(parts) = 1 THEN parts[1]
    ELSE parts[1] \o << sep >> \o JoinWith(Tail(parts), sep)

\* str(Path) of relative parts; the empty path prints as "."
PathStr(parts) == IF parts = <<>> THEN << "." >> ELSE JoinWith(parts, Slash)

\* Path.parent on parts; the parent of the empty relative path is itself
ParentParts(parts) == IF parts = <<>> THEN <<>> ELSE SubSeq(parts, 1, Len(parts) - 1)

(***************************************************************************)
(* Regular expressions.  A pattern is a sequence of atoms, matched left to *)
(* right from the start of the name as re.match does:                      *)
(*   lit c    the character c                                              *)
(*   digits   \d+            greedy, backtracking                          *)
(*   name     (?P<name>.+)   greedy, backtracking, captured                *)
(*   optname  (?P<name>c)?   the character c if it is there, captured;     *)
(*                           otherwise nothing, and the group stays unset  *)
(* A pattern that is not valid makes re.compile raise re.error.            *)
(***************************************************************************)
Lit(c) == [t |-> "lit", c |-> c]
DigitsAtom == [t |-> "digits", c |-> ""]
NameAtom == [t |-> "name", c |-> ""]
OptNameAtom(c) == [t |-> "optname", c |-> c]

\* the dict key None, which is no text
NoneKey == << "None" >>

\* the pattern has a group called "name"
HasNameGroup(atoms) == \E k \in DOMAIN atoms : atoms[k].t \in { "name", "optname" }

Regex(atoms) == [valid |-> TRUE, atoms |-> atoms]

NoMatch == [ok |-> FALSE, hasname |-> FALSE, name |-> <<>>]

RECURSIVE MatchFrom(_, _, _, _), GreedyFrom(_, _, _, _, _, _)
\* match atoms[k..] against s[pos..]; m is the match so far
MatchFrom(atoms, k, s, m) ==
    IF k > Len(atoms) THEN m
    ELSE LET a == atoms[k]
             pos == m.pos
         IN  CASE a.t = "lit" ->
                    IF pos <= Len(s) /\ s[pos] = a.c
                    THEN MatchFrom(atoms, k + 1, s, [m EXCEPT !.pos = pos + 1])
                    ELSE [m EXCEPT !.ok = FALSE]
               [] a.t = "digits" ->
                    GreedyFrom(atoms, k, s, m, pos,
                               IF pos <= Len(s) /\ IsDigitChar(s[pos])
                               THEN DigitRunEnd(s, pos) ELSE pos - 1)
               [] a.t = "name" ->
                    GreedyFrom(atoms, k, s, m, pos, Len(s))
               [] a.t = "optname" ->
                    LET taken == IF pos <= Len(s) /\ s[pos] = a.c
                                 THEN MatchFrom(atoms, k + 1, s,
                                        [m EXCEPT !.pos = pos + 1, !.hasname = TRUE,
                                                  !.name = << a.c >>])
                                 ELSE [m EXCEPT !.ok = FALSE]
                    IN  IF taken.ok THEN taken ELSE MatchFrom(atoms, k + 1, s, m)

\* atoms[k] takes s[pos..e], the longest e first, and gives back one character
\* at a time until the rest of the pattern matches
GreedyFrom(atoms, k, s, m, pos, e) ==
    IF e < pos THEN [m EXCEPT !.ok = FALSE]
    ELSE LET taken == IF atoms[k].t = "name"
                      THEN [m EXCEPT !.pos = e + 1, !.hasname = TRUE,
                                     !.name = SubSeq(s, pos, e)]
                      ELSE [m EXCEPT !.pos = e + 1]
             rest == MatchFrom(atoms, k + 1, s, taken)
         IN  IF rest.ok THEN rest ELSE GreedyFrom(atoms, k, s, m, pos, e - 1)

\* pattern.match(filename) and what match.group("name") gives: the captured
\* text, None when the group "name" took no part in the match, or IndexError
\* (hasname = FALSE) when the pattern has no group "name"
re_match(pattern, filename) ==
    LET r == MatchFrom(pattern.atoms, 1, filename,
                       [ok |-> TRUE, pos |-> 1, hasname |-> FALSE, name |-> <<>>])
    IN  IF r.ok THEN [ok |-> TRUE, hasname |-> HasNameGroup(pattern.atoms),
                      name |-> IF r.hasname THEN r.name ELSE NoneKey]
        ELSE NoMatch

(***************************************************************************)
(* dict: the entries in insertion order, one per key                       *)
(***************************************************************************)
DictKeys(d) == { d[i].key : i \in DOMAIN d }
DictHas(d, k) == k \in DictKeys(d)
DictIndex(d, k) == CHOOSE i \in DOMAIN d : d[i].key = k
DictGet(d, k) == d[DictIndex(d, k)].val

\* d[k] = v: an existing key keeps its place, a new key goes last
DictSet(d, k, v) ==
    IF DictHas(d, k) THEN [d EXCEPT ![DictIndex(d, k)].val = v]
    ELSE Append(d, [key |-> k, val |-> v])

\* d without key k (the entry d.pop(k) removes)
DictWithout(d, k) ==
    LET i == DictIndex(d, k)
    IN  SubSeq(d, 1, i - 1) \o SubSeq(d, i + 1, Len(d))

\* if k not in d: d[k] = []; d[k].append(x)
DictAppendTo(d, k, x) ==
    IF DictHas(d, k) THEN [d EXCEPT ![DictIndex(d, k)].val = Append(@, x)]
    ELSE Append(d, [key |-> k, val |-> << x >>])

\* a plausible slip: the member lists left as the loop built them
SortEachGroupSkipped(d) == d

\* for k in d: d[k] = sorted(d[k], key=natural_sort_key)
SortEachGroup(d) == [i \in DOMAIN d |-> [key |-> d[i].key, val |-> sorted_natural(d[i].val)]]

(***************************************************************************)
(* ImageScanner: grouping                                                  *)
(***************************************************************************)
OtherSuffix == << "_", "o", "t", "h", "e", "r" >>

\* f"{folder_path}_other"
OtherName(folder_path) == folder_path \o OtherSuffix

Raised == [err |-> TRUE, groups |-> <<>>]
Returned(groups) == [err |-> FALSE, groups |-> groups]

\* one pass of the loop of _group_by_single_pattern over image_paths[i..]
RECURSIVE SingleLoop(_, _, _, _, _)
SingleLoop(folder_path, image_paths, pattern, i, st) ==
    IF i > Len(image_paths) THEN st
    ELSE LET image_path == image_paths[i]
             match == re_match(pattern, PathName(image_path))
             group_name == IF match.ok
                           THEN IF match.hasname THEN match.name ELSE folder_path
                           ELSE OtherName(folder_path)
         IN  SingleLoop(folder_path, image_paths, pattern, i + 1,
                        [groups |-> DictAppendTo(st.groups, group_name, image_path),
                         has_matched |-> st.has_matched \/ match.ok])

_group_by_single_pattern(folder_path, image_paths, pattern) ==
    IF ~pattern.valid THEN Raised
    ELSE LET st == SingleLoop(folder_path, image_paths, pattern, 1,
                              [groups |-> <<>>, has_matched |-> FALSE])
             other == OtherName(folder_path)
             renamed == IF ~st.has_matched /\ DictHas(st.groups, other)
                        THEN DictSet(DictWithout(st.groups, other), folder_path,
                                     DictGet(st.groups, other))
                        ELSE st.groups
         IN  Returned(SortEachGroup(renamed))

\* the inner loop of _group_by_multiple_patterns: the patterns in priority order
\* for one file name; each is compiled when its turn comes
RECURSIVE FirstMatch(_, _, _)
FirstMatch(patterns, j, filename) ==
    IF j > Len(patterns) THEN [err |-> FALSE, match |-> NoMatch, index |-> 0]
    ELSE IF ~patterns[j].valid THEN [err |-> TRUE, match |-> NoMatch, index |-> j]
    ELSE LET match == re_match(patterns[j], filename)
         IN  IF match.ok THEN [err |-> FALSE, match |-> match, index |-> j]
             ELSE FirstMatch(patterns, j + 1, filename)

\* the outer loop of _group_by_multiple_patterns over image_paths[i..]
RECURSIVE MultiLoop(_, _, _, _, _)
MultiLoop(folder_path, image_paths, patterns, i, st) ==
    IF i > Len(image_paths) \/ st.err THEN st
    ELSE LET image_path == image_paths[i]
             first == FirstMatch(patterns, 1, PathName(image_path))
             group_name == IF first.match.hasname THEN first.match.name ELSE folder_path
         IN  MultiLoop(folder_path, image_paths, patterns, i + 1,
                CASE first.err -> [st EXCEPT !.err = TRUE]
                  [] ~first.err /\ first.match.ok ->
                        [st EXCEPT !.has_matched = TRUE,
                                   !.groups = DictAppendTo(@, group_name, image_path)]
                  [] OTHER -> [st EXCEPT !.unmatched_images = Append(@, image_path)])

\* a plausible slip: the unmatched images always go to the "_other" group
MultiFinalizeAlwaysOther(folder_path, st) ==
    IF st.unmatched_images # <<>>
    THEN DictSet(st.groups, OtherName(folder_path), st.unmatched_images)
    ELSE st.groups

\* the placement of the unmatched images after the loop
MultiFinalize(folder_path, st) ==
    IF st.unmatched_images # <<>>
    THEN IF st.has_matched
         THEN DictSet(st.groups, OtherName(folder_path), st.unmatched_images)
         ELSE DictSet(st.groups, folder_path, st.unmatched_images)
    ELSE st.groups

_group_by_multiple_patterns(folder_path, image_paths, patterns) ==
    LET st == MultiLoop(folder_path, image_paths, patterns, 1,
                        [groups |-> <<>>, has_matched |-> FALSE,
                         unmatched_images |-> <<>>, err |-> FALSE])
    IN  IF st.err THEN Raised
        ELSE Returned(SortEachGroup(MultiFinalize(folder_path, st)))

\* the deprecated single pattern is None, or a pattern string; "" is falsy
NoPattern == [valid |-> TRUE, atoms |-> <<>>]

\* a plausible slip: the no-pattern result dropped
PassThroughNothing(folder_path, image_paths) == <<>>

\* {folder_path: image_paths}
PassThrough(folder_path, image_paths) == << [key |-> folder_path, val |-> image_paths] >>

group_images_by_pattern(folder_path, image_paths, pattern, patterns) ==
    IF patterns # <<>>
    THEN _group_by_multiple_patterns(folder_path, image_paths, patterns)
    ELSE IF pattern # NoPattern
         THEN _group_by_single_pattern(folder_path, image_paths, pattern)
         ELSE Returned(PassThrough(folder_path, image_paths))

(***************************************************************************)
(* Natural order on its own: two texts are drawn and sorted.               *)
(***************************************************************************)
MaxTextLen == 3

TextAlphabet == { "a", "B", "1", "2" }

RECURSIVE TextsUpTo(_)
TextsUpTo(n) ==
    IF n = 0 THEN { <<>> }
    ELSE LET shorter == TextsUpTo(n - 1)
         IN  shorter \cup { Append(t, c) : t \in shorter, c \in TextAlphabet }

Texts == TextsUpTo(MaxTextLen)

natVars == << sort_in, sort_out >>
groupVars == << arg_folder_path, arg_image_paths, grouping_pattern, grouping_patterns, group_result >>
batchVars == << image_groups, output_directory, progress_callback, delete_images,
               include_root, index, created_pdfs, events, deleted, faults >>
convVars == << conv_image_paths, conv_fit_page, conv_fit_to_page, conv_page_size,
              conv_index, conv_pages, conv_moves >>
scanVars == << files, scan_results, scan_log >>
configVars == << heap_records, heap_lists, config_patterns, config_call >>
\* the state of the converter, the directory scan and the configuration
fileVars == << config_file >>
lateVars == << reorder_call, app_scan_results, fit_image_size, fit_rectangle >>

extVars == << convVars, scanVars, configVars, fileVars, lateVars >>
vars == << phase, natVars, groupVars, batchVars, extVars >>

ConvertIdle ==
    /\ conv_image_paths = <<>>
    /\ conv_fit_page = TRUE
    /\ conv_fit_to_page = TRUE
    /\ conv_page_size = << 0, 0 >>
    /\ conv_index = 0
    /\ conv_pages = <<>>
    /\ conv_moves = 0

ScanIdle ==
    /\ files = {}
    /\ scan_results = <<>>
    /\ scan_log = <<>>

ConfigIdle ==
    /\ heap_records = <<>>
    /\ heap_lists = <<>>
    /\ config_patterns = 0
    /\ config_call = <<>>

FileIdle == config_file = <<>>

LateIdle ==
    /\ reorder_call = <<>>
    /\ app_scan_results = <<>>
    /\ fit_image_size = << 0, 0 >>
    /\ fit_rectangle = <<>>

ExtIdle == ConvertIdle /\ ScanIdle /\ ConfigIdle /\ FileIdle /\ LateIdle

BatchIdle ==
    /\ image_groups = <<>>
    /\ output_directory = <<>>
    /\ progress_callback = FALSE
    /\ delete_images = FALSE
    /\ include_root = FALSE
    /\ index = 0
    /\ created_pdfs = <<>>
    /\ events = <<>>
    /\ deleted = {}
    /\ faults = 0

GroupIdle ==
    /\ arg_folder_path = <<>>
    /\ arg_image_paths = <<>>
    /\ grouping_pattern = [valid |-> TRUE, atoms |-> <<>>]
    /\ grouping_patterns = <<>>
    /\ group_result = [err |-> FALSE, groups |-> <<>>]

NaturalIdle ==
    /\ sort_in = <<>>
    /\ sort_out = <<>>

InitNatural ==
    /\ phase = "ready"
    /\ sort_in \in { << a, b >> : a \in Texts, b \in Texts }
    /\ sort_out = <<>>
    /\ GroupIdle
    /\ BatchIdle
    /\ ExtIdle

\* sorted(sort_in, key=natural_sort_key)
SortPair ==
    /\ phase = "ready"
    /\ sort_out' = sorted_natural(sort_in)
    /\ phase' = "done"
    /\ UNCHANGED << sort_in, groupVars, batchVars, extVars >>

NextNatural == SortPair

SpecNatural == InitNatural /\ [][NextNatural]_vars

(***************************************************************************)
(* Grouping: a scanner is built with a pattern configuration and           *)
(* group_images_by_pattern is called on a folder key and an image list.    *)
(***************************************************************************)
MaxImages == 3
MaxPatterns == 2

FolderKey == << "f" >>
ImageDir == << "f", "/" >>

FileNames ==
    { << "a", "-", "2" >>,
      << "a", "-", "1", "0" >>,
      << "B", "-", "1" >>,
      << "x" >>,
      << "1", "-", "b", "-", "1" >>,
      << "f", "-", "1" >>,
      << "f", "_", "o", "t", "h", "e", "r", "-", "1" >> }

Images == { ImageDir \o n : n \in FileNames }

\* (?P<name>.+)-\d+
PTitle == Regex(<< NameAtom, Lit("-"), DigitsAtom >>)
\* \d+-(?P<name>.+)-\d+
PDated == Regex(<< DigitsAtom, Lit("-"), NameAtom, Lit("-"), DigitsAtom >>)
\* x   (no group "name")
PNoName == Regex(<< Lit("x") >>)
\* (?P<name>a)?
POptional == Regex(<< OptNameAtom("a") >>)
\* a pattern re.compile rejects, such as "("
PBad == [valid |-> FALSE, atoms |-> << Lit("(") >>]

Patterns == { PTitle, PDated, PNoName, POptional, PBad }

RECURSIVE DistinctSeqs(_, _)
\* the sequences of at most n distinct elements of S
DistinctSeqs(S, n) ==
    IF n = 0 THEN { <<>> }
    ELSE LET shorter == DistinctSeqs(S, n - 1)
         IN  shorter \cup UNION { { Append(q, x) : x \in S \ { q[i] : i \in DOMAIN q } } :
                                    q \in shorter }

SeqSet(q) == { q[i] : i \in DOMAIN q }

ImageLists == DistinctSeqs(Images, MaxImages)

PatternLists == DistinctSeqs(Patterns, MaxPatterns)

\* ImageScanner(grouping_pattern=..., grouping_patterns=...): a list alone, the
\* deprecated pattern alone, neither, or a list next to a deprecated pattern
ScannerConfigs ==
    { [pattern |-> p, patterns |-> <<>>] : p \in { NoPattern } \cup Patterns }
        \cup { [pattern |-> p, patterns |-> l] :
                    p \in { NoPattern, PTitle }, l \in PatternLists \ { <<>> } }

InitGroup ==
    /\ phase = "ready"
    /\ arg_folder_path = FolderKey
    /\ arg_image_paths \in ImageLists
    /\ \E c \in ScannerConfigs :
            /\ grouping_pattern = c.pattern
            /\ grouping_patterns = c.patterns
    /\ group_result = [err |-> FALSE, groups |-> <<>>]
    /\ NaturalIdle
    /\ BatchIdle
    /\ ExtIdle

\* scanner.group_images_by_pattern(arg_folder_path, arg_image_paths)
Group ==
    /\ phase = "ready"
    /\ group_result' = group_images_by_pattern(arg_folder_path, arg_image_paths,
                                               grouping_pattern, grouping_patterns)
    /\ phase' = "done"
    /\ UNCHANGED << natVars, arg_folder_path, arg_image_paths, grouping_pattern,
                    grouping_patterns, batchVars, extVars >>

NextGroup == Group

SpecGroup == InitGroup /\ [][NextGroup]_vars

(***************************************************************************)
(* PDFConverter.batch_convert.  The file system, the image decoder, the    *)
(* document writer and the progress callback are outside the program:      *)
(* each of their failures is a choice of the environment, at most          *)
(* MaxFaults of them in one run.                                           *)
(***************************************************************************)
MaxGroups == 2
MaxFaults == 2

PdfSuffix == << ".", "p", "d", "f" >>
Hyphen == "-"

\* folder_parts[-1] raises IndexError when the group name has no parts
NameRaises(folder_name, include) == ~include /\ PathParts(folder_name) = <<>>

\* pdf_name
PdfName(folder_name, include) ==
    LET folder_parts == PathParts(folder_name)
    IN  IF include THEN JoinWith(folder_parts, Hyphen) \o PdfSuffix
        ELSE folder_parts[Len(folder_parts)] \o PdfSuffix

\* str(output_path)
OutputPath(folder_name, image_paths, outdir, include) ==
    LET pdf_name == PdfName(folder_name, include)
    IN  IF outdir # <<>>
        THEN PathStr(Append(PathParts(outdir), pdf_name))
        ELSE LET actual_folder == ParentParts(PathParts(image_paths[1]))
                 parent_folder == ParentParts(actual_folder)
             IN  PathStr(Append(parent_folder, pdf_name))

\* str.endswith
EndsWith(s, suffix) ==
    /\ Len(s) >= Len(suffix)
    /\ SubSeq(s, Len(s) - Len(suffix) + 1, Len(s)) = suffix

\* the "PDF出力先" the folder item of the GUI shows for a group
pdf_output_folder(folder_path, image_paths) ==
    IF image_paths # <<>>
    THEN LET actual_folder == ParentParts(PathParts(image_paths[1]))
         IN  IF EndsWith(folder_path, OtherSuffix)
             THEN PathStr(ParentParts(actual_folder))
             ELSE PathStr(actual_folder)
    ELSE folder_path

\* one thing batch_convert did
Event(ev, i, total, path, error, image, ok) ==
    [ev |-> ev, index |-> i, total |-> total, path |-> path, error |-> error,
     image |-> image, ok |-> ok]

ConvertEvent(i, result) == Event("convert", i, 0, <<>>, result, <<>>, result = "ok")
UnlinkEvent(i, image, ok) == Event("unlink", i, 0, <<>>, "", image, ok)
RmdirEvent(i, result) == Event("rmdir", i, 0, <<>>, result, <<>>, result # "failed")
\* progress_callback(index, total, path) and progress_callback(index, total, None, error=...)
CallbackEvent(i, total, path, error) == Event("callback", i, total, path, error, <<>>, error = "")

\* the unlink calls of one group, in list order
UnlinkEvents(i, image_paths, unlink_failed) ==
    [k \in DOMAIN image_paths |-> UnlinkEvent(i, image_paths[k], image_paths[k] \notin unlink_failed)]

ConvertFailures == { "missing", "decode", "write" }

GroupEntry(name, images) == [key |-> name, val |-> images]

BatchGroupUniverse ==
    { GroupEntry(<< "r", "/", "f" >>,
                 << << "r", "/", "f", "/", "a" >>, << "r", "/", "f", "/", "b" >> >>),
      GroupEntry(<< "r", "/", "f" >> \o OtherSuffix,
                 << << "r", "/", "f", "/", "x" >> >>),
      GroupEntry(<< "t" >>,
                 << << "r", "/", "g", "/", "t" >> >>),
      GroupEntry(<< "f" >>,
                 << << "r", "/", "g", "/", "f", "-", "1" >> >>),
      GroupEntry(<< "r", "/", "g" >>, <<>>),
      GroupEntry(<<>>,
                 << << "r", "/", "g", "/", "y" >> >>) }

OutDir == << "o" >>

InitBatch ==
    /\ phase = "call"
    /\ image_groups \in DistinctSeqs(BatchGroupUniverse, MaxGroups)
    /\ output_directory \in { <<>>, OutDir }
    /\ progress_callback \in BOOLEAN
    /\ delete_images \in BOOLEAN
    /\ include_root \in BOOLEAN
    /\ index = 0
    /\ created_pdfs = <<>>
    /\ events = <<>>
    /\ deleted = {}
    /\ faults = 0
    /\ NaturalIdle
    /\ GroupIdle
    /\ ExtIdle

batchInputs == << image_groups, output_directory, progress_callback, delete_images, include_root >>

InLoop == phase = "loop" /\ index <= Len(image_groups)

folder_name == image_groups[index].key
group_images == image_groups[index].val
total == Len(image_groups)

\* if not image_groups: raise ValueError; created_pdfs = []; total = len(image_groups)
BatchStart ==
    /\ phase = "call"
    /\ phase' = IF image_groups = <<>> THEN "raised" ELSE "loop"
    /\ index' = 1
    /\ UNCHANGED << natVars, groupVars, extVars, batchInputs, created_pdfs, events, deleted, faults >>

\* if not image_paths: continue
SkipEmptyGroup ==
    /\ InLoop
    /\ group_images = <<>>
    /\ index' = index + 1
    /\ UNCHANGED << phase, natVars, groupVars, extVars, batchInputs, created_pdfs, events, deleted, faults >>

\* folder_parts[-1] raises outside the try: the exception leaves batch_convert
NameDerivationRaises ==
    /\ InLoop
    /\ group_images # <<>>
    /\ NameRaises(folder_name, include_root)
    /\ phase' = "raised"
    /\ UNCHANGED << natVars, groupVars, extVars, batchInputs, index, created_pdfs, events, deleted, faults >>

\* output_dir.mkdir(parents=True, exist_ok=True) raises outside the try
MkdirRaises ==
    /\ InLoop
    /\ group_images # <<>>
    /\ ~NameRaises(folder_name, include_root)
    /\ output_directory # <<>>
    /\ faults < MaxFaults
    /\ faults' = faults + 1
    /\ phase' = "raised"
    /\ UNCHANGED << natVars, groupVars, extVars, batchInputs, index, created_pdfs, events, deleted >>

Cost(b) == IF b THEN 1 ELSE 0

\* a plausible slip: the images unlinked whatever the flag says
UnlinkedWhateverFlag(image_paths, unlink_failed, delete) ==
    SeqSet(image_paths) \ unlink_failed

\* the files the unlink loop removes: with the flag set, every image of the
\* group whose unlink did not fail
Unlinked(image_paths, unlink_failed, delete) ==
    IF delete THEN SeqSet(image_paths) \ unlink_failed ELSE {}

\* the try block runs to the callback: the document is written, the images are
\* deleted when asked (a failed unlink or rmdir is printed and passed over), the
\* callback is called; an exception of the callback lands in the except clause,
\* which calls the callback again
ConvertGroup ==
    /\ InLoop
    /\ group_images # <<>>
    /\ ~NameRaises(folder_name, include_root)
    /\ SeqSet(group_images) \cap deleted = {}
    /\ \E unlink_failed \in SUBSET SeqSet(group_images),
          rmdir \in { "none", "kept", "removed", "failed" },
          cb \in { "none", "returns", "raises", "raises-twice" } :
        LET output_path == OutputPath(folder_name, group_images, output_directory, include_root)
            cost == Cardinality(unlink_failed) + Cost(rmdir = "failed")
                        + Cost(cb = "raises") + 2 * Cost(cb = "raises-twice")
        IN  /\ delete_images => rmdir # "none"
            /\ ~delete_images => rmdir = "none" /\ unlink_failed = {}
            /\ rmdir = "removed" => unlink_failed = {}
            /\ progress_callback <=> cb # "none"
            /\ faults + cost <= MaxFaults
            /\ faults' = faults + cost
            /\ created_pdfs' = Append(created_pdfs, output_path)
            /\ deleted' = deleted \cup Unlinked(group_images, unlink_failed, delete_images)
            /\ events' = events
                    \o << ConvertEvent(index, "ok") >>
                    \o (IF delete_images
                        THEN Append(UnlinkEvents(index, group_images, unlink_failed),
                                    RmdirEvent(index, rmdir))
                        ELSE <<>>)
                    \o (IF cb = "none" THEN <<>>
                        ELSE << CallbackEvent(index, total, output_path, "") >>)
                    \o (IF cb \in { "raises", "raises-twice" }
                        THEN << CallbackEvent(index, total, <<>>, "callback") >>
                        ELSE <<>>)
            /\ IF cb = "raises-twice"
               THEN phase' = "raised" /\ index' = index
               ELSE phase' = phase /\ index' = index + 1
    /\ UNCHANGED << natVars, groupVars, extVars, batchInputs >>

\* convert_images_to_pdf raises (an image is missing, cannot be decoded, or the
\* document cannot be written): the except clause reports it to the callback
ConvertFails ==
    /\ InLoop
    /\ group_images # <<>>
    /\ ~NameRaises(folder_name, include_root)
    /\ \E kind \in ConvertFailures, cb_raises \in BOOLEAN :
        LET gone == SeqSet(group_images) \cap deleted # {}
            cost == Cost(~(kind = "missing" /\ gone)) + Cost(cb_raises)
        IN  /\ cb_raises => progress_callback
            /\ gone => kind \in { "missing", "decode" }
            /\ faults + cost <= MaxFaults
            /\ faults' = faults + cost
            /\ events' = events
                    \o << ConvertEvent(index, kind) >>
                    \o (IF progress_callback
                        THEN << CallbackEvent(index, total, <<>>, kind) >>
                        ELSE <<>>)
            /\ IF cb_raises
               THEN phase' = "raised" /\ index' = index
               ELSE phase' = phase /\ index' = index + 1
    /\ UNCHANGED << natVars, groupVars, extVars, batchInputs, created_pdfs, deleted >>

\* return created_pdfs
BatchReturn ==
    /\ phase = "loop"
    /\ index > Len(image_groups)
    /\ phase' = "returned"
    /\ UNCHANGED << natVars, groupVars, extVars, batchInputs, index, created_pdfs, events, deleted, faults >>

NextBatch ==
    \/ BatchStart
    \/ SkipEmptyGroup
    \/ NameDerivationRaises
    \/ MkdirRaises
    \/ ConvertGroup
    \/ ConvertFails
    \/ BatchReturn

SpecBatch == InitBatch /\ [][NextBatch]_vars

(***************************************************************************)
(* PDFConverter.convert_images_to_pdf on the image list of one group,      *)
(* after the user has arranged the list in the GUI.  The page layout is    *)
(* computed in exact arithmetic: a number is a fraction n/d in lowest      *)
(* terms with d > 0.                                                       *)
(***************************************************************************)
MaxPages == 3
MaxMoves == 2

Abs(n) == IF n < 0 THEN 0 - n ELSE n

RECURSIVE GCD(_, _)
GCD(a, b) == IF b = 0 THEN a ELSE GCD(b, a % b)

\* n / d
Rat(n, d) == LET g == GCD(Abs(n), d) IN [n |-> n \div g, d |-> d \div g]

RatMul(a, b) == Rat(a.n * b.n, a.d * b.d)
RatDiv(a, b) == Rat(a.n * b.d, a.d * b.n)
RatSub(a, b) == Rat(a.n * b.d - b.n * a.d, a.d * b.d)
RatGreater(a, b) == a.n * b.d > b.n * a.d

\* the image files of the group and img.size of each
ConvImages ==
    { << "f", "/", "a" >>, << "f", "/", "b" >>, << "f", "/", "x" >>, << "f", "/", "y" >> }

ImageSize(image_path) ==
    CASE image_path = << "f", "/", "a" >> -> << 2000, 1000 >>
      [] image_path = << "f", "/", "b" >> -> << 600, 800 >>
      [] image_path = << "f", "/", "x" >> -> << 70, 99 >>
      [] image_path = << "f", "/", "y" >> -> << 1, 3 >>

\* the values PDF_PAGE_SIZE is given: a 600 x 800 page, and A4 (210 x 297)
PageSizes == { << 600, 800 >>, << 210, 297 >> }

PageLayout(page_width, page_height, x, y, draw_width, draw_height) ==
    [page_width |-> page_width, page_height |-> page_height, x |-> x, y |-> y,
     draw_width |-> draw_width, draw_height |-> draw_height]

\* a plausible slip: width and height exchanged
LayoutFitPageToImageSwapped(img_width, img_height) ==
    PageLayout(Rat(img_height, 1), Rat(img_width, 1), Rat(0, 1), Rat(0, 1),
               Rat(img_height, 1), Rat(img_width, 1))

\* the page takes the size of the image, which is drawn at the origin
LayoutFitPageToImage(img_width, img_height) ==
    PageLayout(Rat(img_width, 1), Rat(img_height, 1), Rat(0, 1), Rat(0, 1),
               Rat(img_width, 1), Rat(img_height, 1))

\* a plausible slip: the comparison the other way round
IsWidthBoundInverted(aspect_ratio, page_aspect_ratio) ==
    RatGreater(page_aspect_ratio, aspect_ratio)

\* if aspect_ratio > page_aspect_ratio
IsWidthBound(aspect_ratio, page_aspect_ratio) ==
    RatGreater(aspect_ratio, page_aspect_ratio)

\* the fixed page, the image scaled to fit it and centred
LayoutFitToPage(img_width, img_height, page_width, page_height) ==
    LET aspect_ratio == Rat(img_width, img_height)
        page_aspect_ratio == Rat(page_width, page_height)
        wide == IsWidthBound(aspect_ratio, page_aspect_ratio)
        draw_width == IF wide THEN Rat(page_width, 1)
                      ELSE RatMul(Rat(page_height, 1), aspect_ratio)
        draw_height == IF wide THEN RatDiv(Rat(page_width, 1), aspect_ratio)
                       ELSE Rat(page_height, 1)
        x == RatDiv(RatSub(Rat(page_width, 1), draw_width), Rat(2, 1))
        y == RatDiv(RatSub(Rat(page_height, 1), draw_height), Rat(2, 1))
    IN  PageLayout(Rat(page_width, 1), Rat(page_height, 1), x, y, draw_width, draw_height)

\* the fixed page, the image at its own size with its top edge on the page's
LayoutOriginalSize(img_width, img_height, page_width, page_height) ==
    PageLayout(Rat(page_width, 1), Rat(page_height, 1), Rat(0, 1),
               RatSub(Rat(page_height, 1), Rat(img_height, 1)),
               Rat(img_width, 1), Rat(img_height, 1))

\* the layout of the page of one image
Layout(img_width, img_height, fit_page_to_image, fit_to_page, page_size) ==
    IF fit_page_to_image THEN LayoutFitPageToImage(img_width, img_height)
    ELSE IF fit_to_page
         THEN LayoutFitToPage(img_width, img_height, page_size[1], page_size[2])
         ELSE LayoutOriginalSize(img_width, img_height, page_size[1], page_size[2])

\* a plausible slip: the new page put in front
showPageFirst(pages, image_path, layout) ==
    << [image |-> image_path, layout |-> layout] >> \o pages

\* c.drawImage(image_path, ...); c.showPage(): the page is closed and follows
\* the pages closed before it
showPage(pages, image_path, layout) ==
    Append(pages, [image |-> image_path, layout |-> layout])

Swap(list, i, j) == [list EXCEPT ![i] = list[j], ![j] = list[i]]

\* list.index(x)
ListIndex(list, x) == CHOOSE i \in DOMAIN list : list[i] = x /\ \A j \in 1..(i - 1) : list[j] # x

InitConvert ==
    /\ phase = "arrange"
    /\ conv_image_paths \in DistinctSeqs(ConvImages, MaxPages)
    /\ conv_fit_page \in BOOLEAN
    /\ conv_fit_to_page \in BOOLEAN
    /\ conv_page_size \in PageSizes
    /\ conv_index = 0
    /\ conv_pages = <<>>
    /\ conv_moves = 0
    /\ NaturalIdle
    /\ GroupIdle
    /\ BatchIdle
    /\ ScanIdle
    /\ ConfigIdle
    /\ FileIdle
    /\ LateIdle

convInputs == << conv_fit_page, conv_fit_to_page, conv_page_size >>

\* the up button of an image of the list (disabled on the first image)
move_image_up ==
    /\ phase = "arrange"
    /\ conv_moves < MaxMoves
    /\ \E image_path \in SeqSet(conv_image_paths) :
        LET idx == ListIndex(conv_image_paths, image_path)
        IN  /\ idx > 1
            /\ conv_image_paths' = Swap(conv_image_paths, idx, idx - 1)
    /\ conv_moves' = conv_moves + 1
    /\ UNCHANGED << phase, natVars, groupVars, batchVars, scanVars, configVars, fileVars, lateVars,
                    convInputs, conv_index, conv_pages >>

\* the down button of an image of the list (disabled on the last image)
move_image_down ==
    /\ phase = "arrange"
    /\ conv_moves < MaxMoves
    /\ \E image_path \in SeqSet(conv_image_paths) :
        LET idx == ListIndex(conv_image_paths, image_path)
        IN  /\ idx < Len(conv_image_paths)
            /\ conv_image_paths' = Swap(conv_image_paths, idx, idx + 1)
    /\ conv_moves' = conv_moves + 1
    /\ UNCHANGED << phase, natVars, groupVars, batchVars, scanVars, configVars, fileVars, lateVars,
                    convInputs, conv_index, conv_pages >>

\* convert_images_to_pdf is called: an empty list raises ValueError, the output
\* directory is made (or mkdir raises), the canvas is created
ConvertBegin ==
    /\ phase = "arrange"
    /\ \E mkdir_ok \in BOOLEAN :
        phase' = IF conv_image_paths # <<>> /\ mkdir_ok THEN "drawing" ELSE "failed"
    /\ conv_index' = 1
    /\ conv_pages' = <<>>
    /\ UNCHANGED << natVars, groupVars, batchVars, scanVars, configVars, fileVars, lateVars,
                    convInputs, conv_image_paths, conv_moves >>

\* one turn of the loop: the image exists and opens, its page is laid out,
\* drawn and closed
DrawPage ==
    /\ phase = "drawing"
    /\ conv_index <= Len(conv_image_paths)
    /\ LET image_path == conv_image_paths[conv_index]
           size == ImageSize(image_path)
       IN  conv_pages' = showPage(conv_pages, image_path,
                                  Layout(size[1], size[2], conv_fit_page,
                                         conv_fit_to_page, conv_page_size))
    /\ conv_index' = conv_index + 1
    /\ UNCHANGED << phase, natVars, groupVars, batchVars, scanVars, configVars, fileVars, lateVars,
                    convInputs, conv_image_paths, conv_moves >>

\* one turn of the loop: the image is missing (FileNotFoundError) or cannot be
\* opened or drawn (RuntimeError); the canvas is never saved
ImageFails ==
    /\ phase = "drawing"
    /\ conv_index <= Len(conv_image_paths)
    /\ phase' = "failed"
    /\ UNCHANGED << natVars, groupVars, batchVars, scanVars, configVars, fileVars, lateVars,
                    convVars >>

\* c.save(): the document is written with the pages the canvas holds
Save ==
    /\ phase = "drawing"
    /\ conv_index > Len(conv_image_paths)
    /\ \E save_ok \in BOOLEAN : phase' = IF save_ok THEN "saved" ELSE "failed"
    /\ UNCHANGED << natVars, groupVars, batchVars, scanVars, configVars, fileVars, lateVars,
                    convVars >>

NextConvert ==
    \/ move_image_up
    \/ move_image_down
    \/ ConvertBegin
    \/ DrawPage
    \/ ImageFails
    \/ Save

SpecConvert == InitConvert /\ [][NextConvert]_vars

(***************************************************************************)
(* The fit-to-page layout on its own: an image of any size on a page of    *)
(* any size.                                                               *)
(***************************************************************************)
MaxDim == 4

Dims == 1..MaxDim

InitLayout ==
    /\ phase = "layout"
    /\ fit_image_size \in Dims \X Dims
    /\ conv_page_size \in Dims \X Dims
    /\ fit_rectangle = <<>>
    /\ conv_image_paths = <<>>
    /\ conv_fit_page = FALSE
    /\ conv_fit_to_page = TRUE
    /\ conv_index = 0
    /\ conv_pages = <<>>
    /\ conv_moves = 0
    /\ reorder_call = <<>>
    /\ app_scan_results = <<>>
    /\ NaturalIdle
    /\ GroupIdle
    /\ BatchIdle
    /\ ScanIdle
    /\ ConfigIdle
    /\ FileIdle

\* the else branch of convert_images_to_pdf with fit_to_page for one image
FitToPage ==
    /\ phase = "layout"
    /\ phase' = "laid"
    /\ fit_rectangle' = Layout(fit_image_size[1], fit_image_size[2], conv_fit_page,
                               conv_fit_to_page, conv_page_size)
    /\ UNCHANGED << natVars, groupVars, batchVars, convVars, scanVars, configVars, fileVars,
                    reorder_call, app_scan_results, fit_image_size >>

NextLayout == FitToPage

SpecLayout == InitLayout /\ [][NextLayout]_vars

(***************************************************************************)
(* ImageScanner.scan_directory.  The file system is a set of nodes, each   *)
(* with its path (the names from the top) and whether it is a directory;   *)
(* it is closed under parents.  Listing a directory may fail (an OSError   *)
(* of iterdir), which the scan does not catch.                             *)
(***************************************************************************)
MaxScans == 3

Node(path, dir) == [path |-> path, dir |-> dir]

RootDir == << << "r" >> >>
SubDir == Append(RootDir, << "d" >>)
DeepDir == Append(SubDir, << "t" >>)

\* what may exist under the directory r
FileUniverse ==
    { Node(RootDir, TRUE),
      Node(Append(RootDir, << "2", ".", "p", "n", "g" >>), FALSE),
      Node(Append(RootDir, << "1", "0", ".", "P", "N", "G" >>), FALSE),
      Node(Append(RootDir, << "a", ".", "t", "x", "t" >>), FALSE),
      Node(SubDir, TRUE),
      Node(Append(SubDir, << "1", ".", "j", "p", "g" >>), FALSE),
      Node(DeepDir, TRUE),
      Node(Append(DeepDir, << "3", ".", "p", "n", "g" >>), FALSE) }

Exists(fs, path) == \E n \in fs : n.path = path
IsDir(fs, path) == \E n \in fs : n.path = path /\ n.dir
IsFile(fs, path) == \E n \in fs : n.path = path /\ ~n.dir

FileSystems ==
    { fs \in SUBSET FileUniverse :
        /\ Node(RootDir, TRUE) \in fs
        /\ \A n \in fs : Len(n.path) > 1 => IsDir(fs, SubSeq(n.path, 1, Len(n.path) - 1)) }

\* the paths scan_directory is called with: the directory r, its subdirectory
\* r/d, the file r/2.png and the path z that does not exist
ScanRoots ==
    { RootDir, SubDir, Append(RootDir, << "2", ".", "p", "n", "g" >>), << << "z" >> >> }

SUPPORTED_IMAGE_EXTENSIONS ==
    { << ".", "p", "n", "g" >>, << ".", "j", "p", "g" >>, << ".", "j", "p", "e", "g" >>,
      << ".", "b", "m", "p" >>, << ".", "w", "e", "b", "p" >> }

\* position of the last "." of name, 0 when there is none
RECURSIVE LastDot(_, _)
LastDot(name, i) ==
    IF i = 0 THEN 0 ELSE IF name[i] = "." THEN i ELSE LastDot(name, i - 1)

\* Path.suffix: from the last "." on, unless the name starts or ends with it
Suffix(name) ==
    LET i == LastDot(name, Len(name))
    IN  IF 1 < i /\ i < Len(name) THEN SubSeq(name, i, Len(name)) ELSE <<>>

\* a plausible slip: the suffix compared as it is written
QualifiesCaseSensitive(name) == Suffix(name) \in SUPPORTED_IMAGE_EXTENSIONS

\* item.suffix.lower() in self.supported_extensions
Qualifies(name) == Lower(Suffix(name)) \in SUPPORTED_IMAGE_EXTENSIONS

\* the names of the entries of a directory
ChildNames(fs, path) ==
    { n.path[Len(n.path)] : n \in { m \in fs : /\ Len(m.path) = Len(path) + 1
                                              /\ SubSeq(m.path, 1, Len(path)) = path } }

\* some order of the elements of a set, as iterdir lists a directory
RECURSIVE SomeOrder(_)
SomeOrder(S) ==
    IF S = {} THEN <<>>
    ELSE LET x == CHOOSE y \in S : TRUE IN << x >> \o SomeOrder(S \ { x })

\* a plausible slip: the key taken relative to the root itself
ScanKeyFromRoot(current_path, root_path) ==
    PathStr(SubSeq(current_path, Len(root_path) + 1, Len(current_path)))

\* str(current_path.relative_to(root_path.parent))
ScanKey(current_path, root_path) ==
    PathStr(SubSeq(current_path, Len(root_path), Len(current_path)))

RECURSIVE _scan_recursive(_, _, _, _, _), ScanItems(_, _, _, _, _, _, _)
\* the loop over the sorted entries names[k..] of current_path; acc holds
\* images_in_current_dir and the state of the scan
ScanItems(fs, current_path, names, k, root_path, denied, acc) ==
    IF k > Len(names) \/ acc.st.err THEN acc
    ELSE LET item == Append(current_path, names[k])
         IN  ScanItems(fs, current_path, names, k + 1, root_path, denied,
                CASE IsFile(fs, item) /\ Qualifies(names[k]) ->
                        [acc EXCEPT !.images = Append(@, PathStr(item))]
                  [] IsFile(fs, item) /\ ~Qualifies(names[k]) -> acc
                  [] OTHER ->
                        [acc EXCEPT !.st = _scan_recursive(fs, item, root_path, denied, @)])

\* st holds scan_results, the directories listed so far and whether iterdir
\* has raised; the directories in denied cannot be listed
_scan_recursive(fs, current_path, root_path, denied, st) ==
    IF current_path \in denied THEN [st EXCEPT !.err = TRUE]
    ELSE LET names == sorted_natural(SomeOrder(ChildNames(fs, current_path)))
             acc == ScanItems(fs, current_path, names, 1, root_path, denied,
                              [images |-> <<>>,
                               st |-> [st EXCEPT !.listed = Append(@, current_path)]])
         IN  IF acc.st.err \/ acc.images = <<>> THEN acc.st
             ELSE [acc.st EXCEPT !.scan_results =
                        DictSet(@, ScanKey(current_path, root_path),
                                sorted_natural(acc.images))]

\* {folder: images for folder, images in self.scan_results.items() if images}
RECURSIVE DropEmpty(_)
DropEmpty(d) ==
    IF d = <<>> THEN <<>>
    ELSE (IF d[1].val # <<>> THEN << d[1] >> ELSE <<>>) \o DropEmpty(Tail(d))

ScanOutcome(outcome, results, listed) ==
    [outcome |-> outcome, scan_results |-> results, listed |-> listed]

\* a plausible slip: self.scan_results reset before the path is checked
scan_directory_resets_first(fs, root_path, denied, results) ==
    IF ~Exists(fs, root_path) THEN ScanOutcome("not_found", <<>>, <<>>)
    ELSE IF ~IsDir(fs, root_path) THEN ScanOutcome("not_a_directory", <<>>, <<>>)
    ELSE LET st == _scan_recursive(fs, root_path, root_path, denied,
                                   [scan_results |-> <<>>, listed |-> <<>>, err |-> FALSE])
         IN  IF st.err THEN ScanOutcome("os_error", st.scan_results, st.listed)
             ELSE ScanOutcome("returned", DropEmpty(st.scan_results), st.listed)

\* scan_directory(root_path) with self.scan_results = results before the call:
\* how it ends, self.scan_results after it and the directories it listed
scan_directory(fs, root_path, denied, results) ==
    IF ~Exists(fs, root_path) THEN ScanOutcome("not_found", results, <<>>)
    ELSE IF ~IsDir(fs, root_path) THEN ScanOutcome("not_a_directory", results, <<>>)
    ELSE LET st == _scan_recursive(fs, root_path, root_path, denied,
                                   [scan_results |-> <<>>, listed |-> <<>>, err |-> FALSE])
         IN  IF st.err THEN ScanOutcome("os_error", st.scan_results, st.listed)
             ELSE ScanOutcome("returned", DropEmpty(st.scan_results), st.listed)

InitScan ==
    /\ phase = "scan"
    /\ files \in FileSystems
    /\ scan_results = <<>>
    /\ scan_log = <<>>
    /\ NaturalIdle
    /\ GroupIdle
    /\ BatchIdle
    /\ ConvertIdle
    /\ ConfigIdle
    /\ FileIdle
    /\ LateIdle

\* scanner.scan_directory(root_path), at most one directory refusing to be listed
ScanDirectory ==
    /\ phase = "scan"
    /\ Len(scan_log) < MaxScans
    /\ \E root_path \in ScanRoots,
          denied \in { {} } \cup { { n.path } : n \in { m \in files : m.dir } } :
        LET r == scan_directory(files, root_path, denied, scan_results)
        IN  /\ scan_results' = r.scan_results
            /\ scan_log' = Append(scan_log, [root_path |-> root_path,
                                             outcome |-> r.outcome,
                                             listed |-> r.listed])
    /\ UNCHANGED << phase, natVars, groupVars, batchVars, convVars, configVars, fileVars, lateVars, files >>

NextScan == ScanDirectory

SpecScan == InitScan /\ [][NextScan]_vars

(***************************************************************************)
(* ImageScanner.reorder_images on the results of a scan of the directory r *)
(***************************************************************************)
MaxReorders == 2
MaxOrderLen == 3

\* the paths a caller may put into new_order: the images of r and of r/d
OrderPaths ==
    { PathStr(Append(RootDir, << "2", ".", "p", "n", "g" >>)),
      PathStr(Append(RootDir, << "1", "0", ".", "P", "N", "G" >>)),
      PathStr(Append(SubDir, << "1", ".", "j", "p", "g" >>)) }

RECURSIVE SeqsUpTo(_, _)
SeqsUpTo(S, n) ==
    IF n = 0 THEN { <<>> }
    ELSE SeqsUpTo(S, n - 1)
            \cup UNION { { Append(q, x) : x \in S } :
                            q \in { t \in SeqsUpTo(S, n - 1) : Len(t) = n - 1 } }

\* the folder keys a caller may name
ReorderKeys == { PathStr(RootDir), PathStr(SubDir), PathStr(DeepDir), << "z" >> }

ReorderOutcome(outcome, results) == [outcome |-> outcome, scan_results |-> results]

\* reorder_images(folder_path, new_order): the two lists are compared as sets
reorder_images(results, folder_path, new_order) ==
    IF ~DictHas(results, folder_path) THEN ReorderOutcome("KeyError", results)
    ELSE LET current_images == SeqSet(DictGet(results, folder_path))
             new_images == SeqSet(new_order)
         IN  IF current_images # new_images THEN ReorderOutcome("ValueError", results)
             ELSE ReorderOutcome("returned", DictSet(results, folder_path, new_order))

\* what scan_directory("r") returns for the file system
ScanOf(fs) == scan_directory(fs, RootDir, {}, <<>>)

\* a scanner after a successful scan of r
InitReorder ==
    /\ phase = "reorder"
    /\ files \in FileSystems
    /\ ScanOf(files).outcome = "returned"
    /\ scan_results = ScanOf(files).scan_results
    /\ scan_log = <<>>
    /\ reorder_call = [outcome |-> "none", seq |-> 0]
    /\ app_scan_results = <<>>
    /\ fit_image_size = << 0, 0 >>
    /\ fit_rectangle = <<>>
    /\ NaturalIdle
    /\ GroupIdle
    /\ BatchIdle
    /\ ConvertIdle
    /\ ConfigIdle
    /\ FileIdle

ReorderImages ==
    /\ phase = "reorder"
    /\ reorder_call.seq < MaxReorders
    /\ \E folder_path \in ReorderKeys, new_order \in SeqsUpTo(OrderPaths, MaxOrderLen) :
        LET r == reorder_images(scan_results, folder_path, new_order)
        IN  /\ scan_results' = r.scan_results
            /\ reorder_call' = [outcome |-> r.outcome, seq |-> reorder_call.seq + 1]
    /\ UNCHANGED << phase, natVars, groupVars, batchVars, convVars, configVars, fileVars,
                    files, scan_log, app_scan_results, fit_image_size, fit_rectangle >>

NextReorder == ReorderImages

SpecReorder == InitReorder /\ [][NextReorder]_vars

(***************************************************************************)
(* ImageToPDFApp._scan_clicked: the folder is scanned, the images of each  *)
(* folder are grouped, and the groups are collected in the mapping the GUI *)
(* shows.                                                                  *)
(***************************************************************************)
AppDirF == Append(RootDir, << "f" >>)
AppDirG == Append(RootDir, << "g" >>)

\* what may exist under the directory r of the application
AppFileUniverse ==
    { Node(RootDir, TRUE),
      Node(AppDirF, TRUE),
      Node(Append(AppDirF, << "a", "-", "1", ".", "p", "n", "g" >>), FALSE),
      Node(Append(AppDirF, << "x", ".", "p", "n", "g" >>), FALSE),
      Node(AppDirG, TRUE),
      Node(Append(AppDirG, << "a", "-", "2", ".", "p", "n", "g" >>), FALSE),
      Node(Append(AppDirG, << "b", "-", "1", ".", "p", "n", "g" >>), FALSE) }

AppFileSystems ==
    { fs \in SUBSET AppFileUniverse :
        /\ Node(RootDir, TRUE) \in fs
        /\ \A n \in fs : Len(n.path) > 1 => IsDir(fs, SubSeq(n.path, 1, Len(n.path) - 1)) }

\* the patterns the scanner of the application is built with
AppScannerConfigs ==
    { [pattern |-> NoPattern, patterns |-> <<>>],
      [pattern |-> PTitle, patterns |-> <<>>],
      [pattern |-> NoPattern, patterns |-> << PTitle >>],
      [pattern |-> NoPattern, patterns |-> << PNoName, PTitle >>],
      [pattern |-> NoPattern, patterns |-> << PBad >>] }

\* the paths the folder field may hold: the directory r and a path that does
\* not exist
AppFolderPaths == { RootDir, << << "z" >> >> }

\* d.update(other): the entries of other set one by one
RECURSIVE DictUpdate(_, _)
DictUpdate(d, other) ==
    IF other = <<>> THEN d
    ELSE DictUpdate(DictSet(d, other[1].key, other[1].val), Tail(other))

\* the loop of _scan_clicked over scan_results_raw[i..]; a grouping that raises
\* ends it with the mapping as far as it was built
RECURSIVE GroupAndCollect(_, _, _, _, _)
GroupAndCollect(scan_results_raw, i, pattern, patterns, acc) ==
    IF i > Len(scan_results_raw) \/ acc.err THEN acc
    ELSE LET folder_groups == group_images_by_pattern(scan_results_raw[i].key,
                                    scan_results_raw[i].val, pattern, patterns)
         IN  GroupAndCollect(scan_results_raw, i + 1, pattern, patterns,
                IF folder_groups.err THEN [acc EXCEPT !.err = TRUE]
                ELSE [acc EXCEPT !.groups = DictUpdate(@, folder_groups.groups)])

InitApp ==
    /\ phase = "app"
    /\ files \in AppFileSystems
    /\ \E c \in AppScannerConfigs :
        /\ grouping_pattern = c.pattern
        /\ grouping_patterns = c.patterns
    /\ arg_folder_path = <<>>
    /\ arg_image_paths = <<>>
    /\ group_result = Returned(<<>>)
    /\ scan_results = <<>>
    /\ scan_log = <<>>
    /\ app_scan_results = <<>>
    /\ reorder_call = <<>>
    /\ fit_image_size = << 0, 0 >>
    /\ fit_rectangle = <<>>
    /\ NaturalIdle
    /\ BatchIdle
    /\ ConvertIdle
    /\ ConfigIdle
    /\ FileIdle

\* _scan_clicked: a path that does not exist, a scan that raises or finds no
\* image, and a grouping that raises end with an error message
ScanClicked ==
    /\ phase = "app"
    /\ \E folder_path \in AppFolderPaths :
        IF ~Exists(files, folder_path)
        THEN /\ phase' = "app_error"
             /\ UNCHANGED << scan_results, app_scan_results >>
        ELSE LET scanned == scan_directory(files, folder_path, {}, scan_results)
                 collected == GroupAndCollect(scanned.scan_results, 1, grouping_pattern,
                                              grouping_patterns,
                                              [groups |-> <<>>, err |-> FALSE])
             IN  /\ scan_results' = scanned.scan_results
                 /\ IF scanned.outcome # "returned" \/ scanned.scan_results = <<>>
                    THEN /\ phase' = "app_error"
                         /\ app_scan_results' = app_scan_results
                    ELSE /\ phase' = IF collected.err THEN "app_error" ELSE "app_shown"
                         /\ app_scan_results' = collected.groups
    /\ UNCHANGED << natVars, groupVars, batchVars, convVars, configVars, fileVars,
                    files, scan_log, reorder_call, fit_image_size, fit_rectangle >>

NextApp == ScanClicked

SpecApp == InitApp /\ [][NextApp]_vars

(***************************************************************************)
(* ConfigManager: the list of grouping patterns.  Python lists and dicts   *)
(* are objects: heap_records holds the pattern records and heap_lists the  *)
(* lists of them (each a sequence of positions in heap_records), and       *)
(* config_patterns says which list config["pdf_grouping_patterns"] is.     *)
(* List 1 is DEFAULT_CONFIG["pdf_grouping_patterns"], record 1 its record. *)
(***************************************************************************)
MaxConfigCalls == 3

\* an argument left out (None) and an argument given
None == <<>>
Some(v) == << v >>

PatternRecord(id, label, pattern, description, enabled) ==
    [id |-> id, label |-> label, pattern |-> pattern, description |-> description,
     enabled |-> enabled]

\* DEFAULT_CONFIG["pdf_grouping_patterns"][0]
DefaultRecord == PatternRecord("default", "default", "PDF_GROUPING_PATTERN", "default", FALSE)

\* the position of DEFAULT_CONFIG["pdf_grouping_patterns"] in heap_lists
DefaultList == 1

\* the lists a caller hands to set_pdf_grouping_patterns, or a configuration
\* file holds
CallerLists ==
    { <<>>,
      << PatternRecord("1", "Test", "p1", "Test pattern", FALSE) >>,
      << PatternRecord("1", "Pattern1", "p1", "Pattern 1", TRUE),
         PatternRecord("2", "Pattern2", "p2", "Pattern 2", FALSE) >>,
      << PatternRecord("2", "Pattern2", "p2", "Pattern 2", TRUE),
         PatternRecord("1", "Pattern1", "p1", "Pattern 1", TRUE) >> }

\* str(uuid.uuid4()): a new identifier at every call
UuidPool == << "uuid-1", "uuid-2", "uuid-3", "uuid-4", "uuid-5" >>

uuid4(records) ==
    UuidPool[1 + Cardinality({ i \in DOMAIN records : records[i].id \in SeqSet(UuidPool) })]

PatternIds == { "1", "2", "default", "uuid-1", "missing" }

\* the arguments of update_pdf_grouping_pattern after the id
UpdateFields(label, pattern, description, enabled) ==
    [label |-> label, pattern |-> pattern, description |-> description, enabled |-> enabled]

UpdateArguments ==
    { UpdateFields(None, None, None, None),
      UpdateFields(Some("Updated"), None, None, None),
      UpdateFields(None, Some("p3"), None, None),
      UpdateFields(None, None, Some("Updated description"), Some(TRUE)),
      UpdateFields(None, None, None, Some(FALSE)),
      UpdateFields(Some("Updated"), Some("p3"), Some("Updated description"), Some(TRUE)) }

\* self.config.get("pdf_grouping_patterns", ...): the list object, read through
get_pdf_grouping_patterns(records, lists, ref) ==
    [i \in DOMAIN lists[ref] |-> records[lists[ref][i]]]

\* [p for p in patterns if p.get("enabled", False)]
EnabledRecords(patterns) == SelectSeq(patterns, LAMBDA p : p.enabled)

\* a plausible slip: the enabled flag not looked at
get_enabled_pdf_grouping_patterns_all(patterns) ==
    [i \in DOMAIN patterns |-> patterns[i].pattern]

\* [p["pattern"] for p in patterns if p.get("enabled", False)]
get_enabled_pdf_grouping_patterns(patterns) ==
    LET enabled_patterns == EnabledRecords(patterns)
    IN  [i \in DOMAIN enabled_patterns |-> enabled_patterns[i].pattern]

get_pdf_grouping_pattern(patterns) ==
    LET enabled_patterns == EnabledRecords(patterns)
    IN  IF enabled_patterns # <<>> THEN enabled_patterns[1].pattern ELSE ""

\* the position in the list of the first record with the id, 0 when none has it
FirstWithId(patterns, pattern_id) ==
    IF \E i \in DOMAIN patterns : patterns[i].id = pattern_id
    THEN CHOOSE i \in DOMAIN patterns :
            /\ patterns[i].id = pattern_id
            /\ \A j \in 1..(i - 1) : patterns[j].id # pattern_id
    ELSE 0

\* a plausible slip: enabled stored as bool(enabled), so that None turns it off
UpdateRecordEnabledAlways(p, fields) ==
    [p EXCEPT !.label = IF fields.label # None THEN fields.label[1] ELSE @,
              !.pattern = IF fields.pattern # None THEN fields.pattern[1] ELSE @,
              !.description = IF fields.description # None THEN fields.description[1] ELSE @,
              !.enabled = IF fields.enabled # None THEN fields.enabled[1] ELSE FALSE]

\* if label is not None: p["label"] = label, and so on for every field
UpdateRecord(p, fields) ==
    [p EXCEPT !.label = IF fields.label # None THEN fields.label[1] ELSE @,
              !.pattern = IF fields.pattern # None THEN fields.pattern[1] ELSE @,
              !.description = IF fields.description # None THEN fields.description[1] ELSE @,
              !.enabled = IF fields.enabled # None THEN fields.enabled[1] ELSE @]

\* the positions kept by [p for p in patterns if p["id"] != pattern_id]
RECURSIVE WithoutId(_, _, _)
WithoutId(records, list, pattern_id) ==
    IF list = <<>> THEN <<>>
    ELSE (IF records[list[1]].id # pattern_id THEN << list[1] >> ELSE <<>>)
            \o WithoutId(records, Tail(list), pattern_id)

ConfigCall(op, id, fields, ret) ==
    [op |-> op, id |-> id, fields |-> fields, ret |-> ret,
     seq |-> config_call.seq + 1]

\* new records for the dicts of a list a caller built, and the list of them
Allocated(records, list) == [i \in DOMAIN list |-> Len(records) + i]

\* a plausible slip: the flag written the way Python prints it
JsonBoolPython(b) == IF b THEN "True" ELSE "False"

\* json.dump of a bool
JsonBool(b) == IF b THEN "true" ELSE "false"

JsonMember(name, type, text) == [name |-> name, type |-> type, text |-> text]

\* json.dump of one pattern record: an object, its members in the order of the
\* dict
json_dump_record(p) ==
    << JsonMember("id", "string", p.id),
       JsonMember("label", "string", p.label),
       JsonMember("pattern", "string", p.pattern),
       JsonMember("description", "string", p.description),
       JsonMember("enabled", "literal", JsonBool(p.enabled)) >>

\* json.dump of the pattern list: an array of objects
json_dump(patterns) == [i \in DOMAIN patterns |-> json_dump_record(patterns[i])]

MemberText(object, name) ==
    object[CHOOSE k \in DOMAIN object : object[k].name = name].text

\* json.load of one object of the array
json_load_record(object) ==
    PatternRecord(MemberText(object, "id"), MemberText(object, "label"),
                  MemberText(object, "pattern"), MemberText(object, "description"),
                  MemberText(object, "enabled") = "true")

json_load(array) == [i \in DOMAIN array |-> json_load_record(array[i])]

\* the configuration file: not there, there but not JSON, or a JSON object
\* with or without the key "pdf_grouping_patterns" and with the old key
\* "pdf_grouping_pattern" ("" when it is absent or empty)
ConfigFile(kind, has_patterns, patterns, old_pattern) ==
    [kind |-> kind, has_patterns |-> has_patterns, patterns |-> patterns,
     old_pattern |-> old_pattern]

MissingFile == ConfigFile("missing", FALSE, <<>>, "")
UnreadableFile == ConfigFile("unreadable", FALSE, <<>>, "")

\* the file json.dump(self.config, f) writes
SavedFile(patterns) == ConfigFile("json", TRUE, json_dump(patterns), "")

\* the files a ConfigManager may find when it is constructed; a saved one holds
\* no record or two
ConfigFiles ==
    { MissingFile, UnreadableFile,
      ConfigFile("json", FALSE, <<>>, ""), ConfigFile("json", FALSE, <<>>, "old") }
        \cup { SavedFile(l) : l \in { c \in CallerLists : Len(c) # 1 } }

\* the record _migrate_old_format builds from the old pattern
MigratedRecord(old_pattern) ==
    PatternRecord("migrated_default", "migrated", old_pattern, "migrated", TRUE)

\* the heap with one more list, made of new records
WithNewList(records, lists, list) ==
    [records |-> records \o list,
     lists |-> Append(lists, Allocated(records, list)),
     ref |-> Len(lists) + 1]

\* load_config(): what config["pdf_grouping_patterns"] is afterwards.  A file
\* that is missing or cannot be read gives DEFAULT_CONFIG.copy(), whose pattern
\* list is the default list itself; a file with the key gives the list
\* json.load built; a file without it is migrated: the old pattern becomes one
\* enabled record, and without an old pattern the list is a copy of the
\* default list that holds the default record itself
load_config(file, records, lists) ==
    CASE file.kind # "json" ->
            [records |-> records, lists |-> lists, ref |-> DefaultList]
      [] file.kind = "json" /\ file.has_patterns ->
            WithNewList(records, lists, json_load(file.patterns))
      [] file.kind = "json" /\ ~file.has_patterns /\ file.old_pattern # "" ->
            WithNewList(records, lists, << MigratedRecord(file.old_pattern) >>)
      [] OTHER ->
            [records |-> records, lists |-> Append(lists, lists[DefaultList]),
             ref |-> Len(lists) + 1]

\* ConfigManager(config_path) in a fresh interpreter
InitConfig ==
    /\ phase = "config"
    /\ config_file \in ConfigFiles
    /\ LET loaded == load_config(config_file, << DefaultRecord >>, << << 1 >> >>)
       IN  /\ heap_records = loaded.records
           /\ heap_lists = loaded.lists
           /\ config_patterns = loaded.ref
    /\ config_call = [op |-> "init", id |-> "", fields |-> UpdateFields(None, None, None, None),
                      ret |-> TRUE, seq |-> 0]
    /\ NaturalIdle
    /\ GroupIdle
    /\ BatchIdle
    /\ ConvertIdle
    /\ ScanIdle
    /\ LateIdle

ConfigReady == phase = "config" /\ config_call.seq < MaxConfigCalls

NoFields == UpdateFields(None, None, None, None)

\* what no ConfigManager call touches, and what only save_config touches
configOuter == << phase, natVars, groupVars, batchVars, convVars, scanVars, lateVars >>
configFrame == << configOuter, fileVars >>

\* set_pdf_grouping_patterns(patterns) with a list the caller built
SetPatterns ==
    /\ ConfigReady
    /\ \E list \in CallerLists :
        /\ heap_records' = heap_records \o list
        /\ heap_lists' = Append(heap_lists, Allocated(heap_records, list))
        /\ config_patterns' = Len(heap_lists) + 1
    /\ config_call' = ConfigCall("set", "", NoFields, TRUE)
    /\ UNCHANGED configFrame

\* add_pdf_grouping_pattern(label, pattern, description, enabled): the record
\* is appended to the stored list object itself
AddPattern ==
    /\ ConfigReady
    /\ \E pattern \in { "p1", "p4" }, enabled \in BOOLEAN :
        LET pattern_id == uuid4(heap_records)
        IN  /\ heap_records' = Append(heap_records,
                    PatternRecord(pattern_id, "New Pattern", pattern, "", enabled))
            /\ heap_lists' = [heap_lists EXCEPT ![config_patterns] =
                                    Append(@, Len(heap_records) + 1)]
            /\ config_call' = ConfigCall("add", pattern_id, NoFields, pattern_id)
    /\ UNCHANGED << configFrame, config_patterns >>

\* update_pdf_grouping_pattern(pattern_id, label, pattern, description, enabled)
UpdatePattern ==
    /\ ConfigReady
    /\ \E pattern_id \in PatternIds, fields \in UpdateArguments :
        LET patterns == get_pdf_grouping_patterns(heap_records, heap_lists, config_patterns)
            k == FirstWithId(patterns, pattern_id)
        IN  IF k # 0
            THEN /\ heap_records' =
                        [heap_records EXCEPT ![heap_lists[config_patterns][k]] =
                                UpdateRecord(@, fields)]
                 /\ config_call' = ConfigCall("update", pattern_id, fields, TRUE)
            ELSE /\ heap_records' = heap_records
                 /\ config_call' = ConfigCall("update", pattern_id, fields, FALSE)
    /\ UNCHANGED << configFrame, heap_lists, config_patterns >>

\* remove_pdf_grouping_pattern(pattern_id): a new list without the records of
\* that id is stored when it is shorter
RemovePattern ==
    /\ ConfigReady
    /\ \E pattern_id \in PatternIds :
        LET kept == WithoutId(heap_records, heap_lists[config_patterns], pattern_id)
        IN  IF Len(kept) < Len(heap_lists[config_patterns])
            THEN /\ heap_lists' = Append(heap_lists, kept)
                 /\ config_patterns' = Len(heap_lists) + 1
                 /\ config_call' = ConfigCall("remove", pattern_id, NoFields, TRUE)
            ELSE /\ UNCHANGED << heap_lists, config_patterns >>
                 /\ config_call' = ConfigCall("remove", pattern_id, NoFields, FALSE)
    /\ UNCHANGED << configFrame, heap_records >>

\* reset_to_defaults(): config = DEFAULT_CONFIG.copy()
ResetToDefaults ==
    /\ ConfigReady
    /\ config_patterns' = DefaultList
    /\ config_call' = ConfigCall("reset", "", NoFields, TRUE)
    /\ UNCHANGED << configFrame, heap_records, heap_lists >>

\* save_config(): the file is written, or mkdir, open or the write raises and
\* save_config raises RuntimeError; a write that fails may leave the file cut
\* short
SaveConfig ==
    /\ ConfigReady
    /\ \E written \in { "all", "nothing", "part" } :
        /\ config_file' = CASE written = "all" ->
                                SavedFile(get_pdf_grouping_patterns(heap_records, heap_lists,
                                                                    config_patterns))
                             [] written = "nothing" -> config_file
                             [] OTHER -> UnreadableFile
        /\ config_call' = ConfigCall("save", "", NoFields, written = "all")
    /\ UNCHANGED << configOuter, heap_records, heap_lists, config_patterns >>

\* ConfigManager(config_path) once more on the same file: the new instance is
\* the one the calls after this go to
LoadConfig ==
    /\ ConfigReady
    /\ LET loaded == load_config(config_file, heap_records, heap_lists)
       IN  /\ heap_records' = loaded.records
           /\ heap_lists' = loaded.lists
           /\ config_patterns' = loaded.ref
    /\ config_call' = ConfigCall("load", "", NoFields, TRUE)
    /\ UNCHANGED configFrame

\* get_enabled_pdf_grouping_patterns()
GetEnabledPatterns ==
    /\ ConfigReady
    /\ config_call' = ConfigCall("get_enabled", "", NoFields,
            get_enabled_pdf_grouping_patterns(
                get_pdf_grouping_patterns(heap_records, heap_lists, config_patterns)))
    /\ UNCHANGED << configFrame, heap_records, heap_lists, config_patterns >>

\* get_pdf_grouping_pattern()
GetPattern ==
    /\ ConfigReady
    /\ config_call' = ConfigCall("get_pattern", "", NoFields,
            get_pdf_grouping_pattern(
                get_pdf_grouping_patterns(heap_records, heap_lists, config_patterns)))
    /\ UNCHANGED << configFrame, heap_records, heap_lists, config_patterns >>

NextConfig ==
    \/ SetPatterns
    \/ AddPattern
    \/ UpdatePattern
    \/ RemovePattern
    \/ ResetToDefaults
    \/ SaveConfig
    \/ LoadConfig
    \/ GetEnabledPatterns
    \/ GetPattern

SpecConfig == InitConfig /\ [][NextConfig]_vars

(***************************************************************************)
(* Properties of grouping                                                  *)
(***************************************************************************)
Done == phase = "done"

Groups == group_result.groups

InputImages == { arg_image_paths[i] : i \in DOMAIN arg_image_paths }

\* how many times img occurs in the member lists of the returned groups
Occurrences(img) ==
    Cardinality({ ij \in UNION { { << i, j >> : j \in DOMAIN Groups[i].val } : i \in DOMAIN Groups } :
                    Groups[ij[1]].val[ij[2]] = img })

\* the patterns the scanner was configured with, as an ordered list
ConfiguredPatterns ==
    IF grouping_patterns # <<>> THEN grouping_patterns
    ELSE IF grouping_pattern # NoPattern THEN << grouping_pattern >>
    ELSE <<>>

Matches(p, img) == p.valid /\ re_match(p, PathName(img)).ok

MatchingIndices(img) ==
    { j \in DOMAIN ConfiguredPatterns : Matches(ConfiguredPatterns[j], img) }

MatchedImages == { img \in InputImages : MatchingIndices(img) # {} }
UnmatchedImages == InputImages \ MatchedImages

\* the group name the pattern at index j gives img
NameBy(j, img) ==
    LET m == re_match(ConfiguredPatterns[j], PathName(img))
    IN  IF m.hasname THEN m.name ELSE arg_folder_path

LowestIndex(S) == CHOOSE j \in S : \A k \in S : j <= k

IsNaturallyOrdered(list) ==
    \A i, j \in DOMAIN list : i < j => ~NaturalLess(list[j], list[i])

\* C1: every input image is in exactly one returned member list, exactly once,
\* and the returned lists hold no other path, whatever the captured names.
C1_Partition ==
    (Done /\ ~group_result.err) =>
        \A img \in Images : Occurrences(img) = IF img \in InputImages THEN 1 ELSE 0

\* C2: an image that matches patterns of the list is a member of the group named
\* by the lowest-index pattern that matches it, and of no other group.
C2_Priority ==
    (Done /\ ~group_result.err /\ grouping_patterns # <<>>) =>
        \A img \in MatchedImages :
            LET target == NameBy(LowestIndex(MatchingIndices(img)), img)
            IN  /\ DictHas(Groups, target)
                /\ img \in SeqSet(DictGet(Groups, target))
                /\ \A g \in DOMAIN Groups :
                        img \in SeqSet(Groups[g].val) => Groups[g].key = target

\* C3: with some image matched and some unmatched, the group folderKey_other
\* exists, its members are exactly the unmatched images, and the unmatched
\* images are in no group named folderKey.
C3_Fallback ==
    (Done /\ ~group_result.err /\ MatchedImages # {} /\ UnmatchedImages # {}) =>
        /\ DictHas(Groups, OtherName(arg_folder_path))
        /\ SeqSet(DictGet(Groups, OtherName(arg_folder_path))) = UnmatchedImages
        /\ DictHas(Groups, arg_folder_path) =>
                SeqSet(DictGet(Groups, arg_folder_path)) \cap UnmatchedImages = {}

\* C4: with patterns configured and no image of a non-empty list matching any,
\* the result is one group, named folderKey, holding all the input images.
C4_AllUnmatchedCollapse ==
    (Done /\ ~group_result.err /\ ConfiguredPatterns # <<>>
          /\ InputImages # {} /\ MatchedImages = {}) =>
        /\ Len(Groups) = 1
        /\ Groups[1].key = arg_folder_path
        /\ SeqSet(Groups[1].val) = InputImages
        /\ Len(Groups[1].val) = Len(arg_image_paths)

C4_Witness ==
    /\ Done /\ ~group_result.err
    /\ grouping_patterns # <<>>
    /\ Len(arg_image_paths) >= 2
    /\ MatchedImages = {}
    /\ DictKeys(Groups) = { arg_folder_path }

\* C5: with neither a pattern list nor the deprecated pattern, the result is one
\* group, named folderKey, whose members are all the input images.
C5_NoPatternPassthrough ==
    (Done /\ ConfiguredPatterns = <<>>) =>
        /\ ~group_result.err
        /\ Len(Groups) = 1
        /\ Groups[1].key = arg_folder_path
        /\ SeqSet(Groups[1].val) = InputImages
        /\ Len(Groups[1].val) = Len(arg_image_paths)

C5_Witness ==
    /\ Done /\ ConfiguredPatterns = <<>>
    /\ Len(arg_image_paths) = MaxImages
    /\ DictKeys(Groups) = { arg_folder_path }

\* C6 as claimed: every returned member list is in natural order, for every
\* input order and every pattern configuration, the no-pattern one included.
C6_AlwaysNaturallyOrdered ==
    (Done /\ ~group_result.err) =>
        \A g \in DOMAIN Groups : IsNaturallyOrdered(Groups[g].val)

\* C6 amended: with at least one pattern configured every returned member list
\* is in natural order whatever the input order; with no pattern the single
\* member list is the input list in its input order.
C6_OrderedWhenPatterned ==
    (Done /\ ~group_result.err) =>
        /\ ConfiguredPatterns # <<>> =>
                \A g \in DOMAIN Groups : IsNaturallyOrdered(Groups[g].val)
        /\ ConfiguredPatterns = <<>> => Groups[1].val = arg_image_paths

C6_Witness ==
    /\ Done /\ ~group_result.err
    /\ ConfiguredPatterns # <<>>
    /\ ~IsNaturallyOrdered(arg_image_paths)
    /\ \E g \in DOMAIN Groups :
            /\ Len(Groups[g].val) = MaxImages
            /\ IsNaturallyOrdered(Groups[g].val)

SameMapping(a, b) ==
    /\ a.err = b.err
    /\ DictKeys(a.groups) = DictKeys(b.groups)
    /\ \A k \in DictKeys(a.groups) : DictGet(a.groups, k) = DictGet(b.groups, k)

\* C8: grouping with the deprecated single pattern p returns the same mapping
\* as grouping with the one-element pattern list [p].
C8_SingleEqualsOneElementList ==
    (Done /\ grouping_patterns = <<>> /\ grouping_pattern # NoPattern
          /\ grouping_pattern.valid) =>
        SameMapping(group_result,
                    group_images_by_pattern(arg_folder_path, arg_image_paths,
                                            NoPattern, << grouping_pattern >>))

\* C14: when a pattern of the supplied list has invalid syntax, grouping a
\* non-empty image list raises and returns no groups, wherever the invalid
\* pattern stands in the list and whatever the images.
C14_InvalidPatternFatal ==
    (Done /\ arg_image_paths # <<>>
          /\ \E j \in DOMAIN grouping_patterns : ~grouping_patterns[j].valid) =>
        group_result.err /\ Groups = <<>>

\* the first pattern that matches img gives no captured name: it has no group
\* "name", or the group took no part in the match
NoCapturedName(img) ==
    LET m == re_match(ConfiguredPatterns[LowestIndex(MatchingIndices(img))], PathName(img))
    IN  ~m.hasname \/ m.name = NoneKey

\* C22: an image whose first matching pattern yields no captured name is a
\* member of the group named folderKey, and the call raises nothing for it.
C22_NoCaptureFallback ==
    (Done /\ ~group_result.err) =>
        \A img \in MatchedImages :
            NoCapturedName(img) =>
                /\ DictHas(Groups, arg_folder_path)
                /\ img \in SeqSet(DictGet(Groups, arg_folder_path))

(***************************************************************************)
(* Properties of the natural order                                         *)
(***************************************************************************)
\* index of the last character of the maximal run of one class (digit or not)
\* that starts at i
RECURSIVE RunEnd(_, _)
RunEnd(text, i) ==
    IF i < Len(text) /\ (IsDigitChar(text[i + 1]) <=> IsDigitChar(text[i]))
    THEN RunEnd(text, i + 1) ELSE i

\* the maximal runs of text, in order
RECURSIVE RunsFrom(_, _)
RunsFrom(text, i) ==
    IF i > Len(text) THEN <<>>
    ELSE LET j == RunEnd(text, i)
         IN  << [digits |-> IsDigitChar(text[i]), chars |-> SubSeq(text, i, j)] >>
                 \o RunsFrom(text, j + 1)

Runs(text) == RunsFrom(text, 1)

\* two runs compared as the natural order is described: "lt", "gt", "eq", or
\* "mixed" for a digit run against a non-digit run
RunOrder(r1, r2) ==
    CASE r1.digits /\ r2.digits ->
            IF IntOf(r1.chars) < IntOf(r2.chars) THEN "lt"
            ELSE IF IntOf(r2.chars) < IntOf(r1.chars) THEN "gt" ELSE "eq"
      [] ~r1.digits /\ ~r2.digits ->
            IF StrLess(Lower(r1.chars), Lower(r2.chars)) THEN "lt"
            ELSE IF StrLess(Lower(r2.chars), Lower(r1.chars)) THEN "gt" ELSE "eq"
      [] OTHER -> "mixed"

\* run by run; on a common prefix the name with fewer runs is first
RECURSIVE RunsOrder(_, _)
RunsOrder(rs1, rs2) ==
    IF rs1 = <<>> /\ rs2 = <<>> THEN "eq"
    ELSE IF rs1 = <<>> THEN "lt"
    ELSE IF rs2 = <<>> THEN "gt"
    ELSE LET o == RunOrder(rs1[1], rs2[1])
         IN  IF o = "eq" THEN RunsOrder(Tail(rs1), Tail(rs2)) ELSE o

\* C7: sorting two names puts first the one that is smaller run by run: digit
\* runs by integer value, non-digit runs case-insensitively, fewer runs first
\* on a common prefix.
C7_RunByRun ==
    Done /\ Len(sort_in) = 2 =>
        LET a == sort_in[1]
            b == sort_in[2]
            o == RunsOrder(Runs(a), Runs(b))
        IN  /\ o = "lt" => sort_out = << a, b >>
            /\ o = "gt" => sort_out = << b, a >>

\* "a12" before "a2" in the input, "a2" first in the output
C7_Witness ==
    /\ Done
    /\ sort_in = << << "a", "1", "2" >>, << "a", "2" >> >>
    /\ sort_out = << << "a", "2" >>, << "a", "1", "2" >> >>

(***************************************************************************)
(* Properties of batch_convert                                             *)
(***************************************************************************)
Finished == phase \in { "returned", "raised" }

EventsOf(ev, g) == { k \in DOMAIN events : events[k].ev = ev /\ events[k].index = g }

Succeeded(g) == \E k \in EventsOf("convert", g) : events[k].ok

\* the output paths of the groups whose conversion succeeded, in group order
RECURSIVE SucceededPathsFrom(_)
SucceededPathsFrom(g) ==
    IF g > Len(image_groups) THEN <<>>
    ELSE (IF Succeeded(g)
          THEN << OutputPath(image_groups[g].key, image_groups[g].val,
                             output_directory, include_root) >>
          ELSE <<>>) \o SucceededPathsFrom(g + 1)

\* C9: when batch_convert has returned and a callback was given, every group of
\* the input mapping has exactly one callback, placed after its conversion
\* attempt, with the path and no error on success and with no path and an error
\* on failure.
C9_CallbackOncePerGroup ==
    (phase = "returned" /\ progress_callback) =>
        \A g \in DOMAIN image_groups :
            /\ Cardinality(EventsOf("callback", g)) = 1
            /\ \A c \in EventsOf("callback", g) :
                    /\ \E k \in EventsOf("convert", g) : k < c
                    /\ Succeeded(g) => events[c].path # <<>> /\ events[c].error = ""
                    /\ ~Succeeded(g) => events[c].path = <<>> /\ events[c].error # ""

\* the groups with images whose conversion was never attempted
Unattempted ==
    { g \in DOMAIN image_groups :
        image_groups[g].val # <<>> /\ EventsOf("convert", g) = {} }

\* C10: a run on a batch of several groups ends by returning; whatever failed
\* in one group, every other group was attempted, and the returned list is
\* exactly the output paths of the groups that succeeded, in group order.
C10_PartialFailure ==
    (Finished /\ Len(image_groups) > 1) =>
        /\ Cardinality(Unattempted) <= 1
        /\ phase = "returned"
        /\ created_pdfs = SucceededPathsFrom(1)

\* the position in created_pdfs of the document of group g
CreatedIndex(g) == Cardinality({ h \in 1..g : Succeeded(h) })

\* Path(created).parent
WrittenFolder(g) == PathStr(ParentParts(PathParts(created_pdfs[CreatedIndex(g)])))

\* C11: without an explicit output directory the document of a group named
\* ..._other is written to the parent of the folder that holds its first image,
\* and the document of every other group into the folder that holds its first
\* image (the output folder the GUI shows for the group).
C11_OutputLocation ==
    output_directory = <<>> =>
        \A g \in DOMAIN image_groups :
            (Succeeded(g) /\ PathParts(image_groups[g].key) # <<>>) =>
                WrittenFolder(g) = pdf_output_folder(image_groups[g].key, image_groups[g].val)

\* the groups whose conversion was attempted and failed
FailedGroups ==
    { g \in DOMAIN image_groups : EventsOf("convert", g) # {} /\ ~Succeeded(g) }

\* C12: a source image is deleted only with the delete flag set and after the
\* document of its group was written; no image of a group whose conversion
\* failed is deleted; nothing is deleted with the flag off.
C12_DeletionSafety ==
    /\ ~delete_images => deleted = {}
    /\ \A img \in deleted :
            \E g \in DOMAIN image_groups :
                img \in SeqSet(image_groups[g].val) /\ Succeeded(g)
    /\ \A g \in FailedGroups : SeqSet(image_groups[g].val) \cap deleted = {}
    /\ \A k \in DOMAIN events :
            events[k].ev = "unlink" =>
                /\ delete_images
                /\ \E c \in EventsOf("convert", events[k].index) : c < k /\ events[c].ok

\* a batch that deleted the images of one group and failed to convert another
C12_Witness ==
    /\ phase = "returned"
    /\ deleted # {}
    /\ FailedGroups # {}

\* the callbacks in the order they were made
CallbackPositions == { k \in DOMAIN events : events[k].ev = "callback" }

\* C23: when batch_convert has returned and a callback was given, the completed
\* counts of the callbacks are strictly increasing, each is at most the total,
\* the total is the number of groups, the callback of a group comes after the
\* attempt of that group and before the conversion of the next, and the last
\* callback reports completed = total.
C23_ProgressOrdering ==
    (phase = "returned" /\ progress_callback) =>
        /\ \A c, d \in CallbackPositions : c < d => events[c].index < events[d].index
        /\ \A c \in CallbackPositions :
                /\ events[c].index <= events[c].total
                /\ events[c].total = Len(image_groups)
                /\ \E k \in EventsOf("convert", events[c].index) : k < c
                /\ \A k \in DOMAIN events :
                        (events[k].ev = "convert" /\ events[k].index > events[c].index) => c < k
        /\ \E c \in CallbackPositions :
                /\ events[c].index = Len(image_groups)
                /\ \A d \in CallbackPositions : d <= c

\* the groups with an unlink or an rmdir that failed
DeletionFailed(g) ==
    \/ \E k \in EventsOf("unlink", g) : ~events[k].ok
    \/ \E k \in EventsOf("rmdir", g) : ~events[k].ok

\* C24: a group whose document was written and whose unlink or rmdir failed is
\* a success: its path is in the returned list, its single callback carries the
\* path and no error, the unlink of every image of the group was attempted, and
\* the groups after it were attempted.
C24_BestEffortCleanup ==
    phase = "returned" =>
        \A g \in DOMAIN image_groups :
            DeletionFailed(g) =>
                /\ Succeeded(g)
                /\ created_pdfs[CreatedIndex(g)] =
                        OutputPath(image_groups[g].key, image_groups[g].val,
                                   output_directory, include_root)
                /\ progress_callback =>
                        /\ Cardinality(EventsOf("callback", g)) = 1
                        /\ \A c \in EventsOf("callback", g) :
                                events[c].path # <<>> /\ events[c].error = ""
                /\ \A img \in SeqSet(image_groups[g].val) :
                        \E k \in EventsOf("unlink", g) : events[k].image = img
                /\ \A h \in DOMAIN image_groups :
                        (h > g /\ image_groups[h].val # <<>>) => EventsOf("convert", h) # {}

\* C28: two groups of one batch are never written to the same output path: the
\* returned list holds no path twice.
C28_NoOutputOverwrite ==
    \A i, j \in DOMAIN created_pdfs : i # j => created_pdfs[i] # created_pdfs[j]

(***************************************************************************)
(* Properties of convert_images_to_pdf                                     *)
(***************************************************************************)
Saved == phase = "saved"

\* C13: the saved document has one page per image of the list handed to the
\* converter, the i-th page showing the i-th image, also when the user has
\* moved images up or down before converting.
C13_PageOrder ==
    /\ Saved =>
        /\ Len(conv_pages) = Len(conv_image_paths)
        /\ \A i \in DOMAIN conv_pages : conv_pages[i].image = conv_image_paths[i]
    /\ phase = "drawing" =>
        /\ Len(conv_pages) = conv_index - 1
        /\ \A i \in DOMAIN conv_pages : conv_pages[i].image = conv_image_paths[i]

\* a document of at least two pages of a list the user has rearranged
C13_Witness ==
    /\ Saved
    /\ conv_moves > 0
    /\ Len(conv_pages) >= 2
    /\ ~IsNaturallyOrdered(conv_image_paths)

\* the number v is n / d
IsRat(v, n, d) == v.n * d = n * v.d

C18_FitPageToImage ==
    conv_fit_page =>
        \A i \in DOMAIN conv_pages :
            LET l == conv_pages[i].layout
                w == ImageSize(conv_pages[i].image)[1]
                h == ImageSize(conv_pages[i].image)[2]
            IN  /\ IsRat(l.page_width, w, 1) /\ IsRat(l.page_height, h, 1)
                /\ IsRat(l.x, 0, 1) /\ IsRat(l.y, 0, 1)
                /\ IsRat(l.draw_width, w, 1) /\ IsRat(l.draw_height, h, 1)

\* a document whose consecutive pages have different sizes
C18_Witness ==
    /\ Saved
    /\ conv_fit_page
    /\ \E i \in DOMAIN conv_pages :
            /\ i + 1 \in DOMAIN conv_pages
            /\ conv_pages[i].layout.page_width # conv_pages[i + 1].layout.page_width
            /\ conv_pages[i].layout.page_height # conv_pages[i + 1].layout.page_height

(***************************************************************************)
(* Properties of scan_directory                                            *)
(***************************************************************************)
ScanErrors == { "not_found", "not_a_directory" }

LastScan == scan_log[Len(scan_log)]

\* C15: scan_directory on a path that does not exist ends with the not-found
\* error, on a path that is not a directory with the not-a-directory error;
\* in both cases it lists no directory and leaves the stored scan results as
\* they were.
C15_ScanErrors ==
    [][Len(scan_log') > Len(scan_log) =>
        LET call == scan_log'[Len(scan_log')]
            exists == \E n \in files : n.path = call.root_path
            isdir == \E n \in files : n.path = call.root_path /\ n.dir
        IN  /\ ~exists => call.outcome = "not_found"
            /\ (exists /\ ~isdir) => call.outcome = "not_a_directory"
            /\ (exists /\ isdir) => call.outcome \notin ScanErrors
            /\ call.outcome \in ScanErrors =>
                    call.listed = <<>> /\ scan_results' = scan_results]_vars

\* after a successful scan that stored results, one call on a missing path and
\* one on a file
C15_Witness ==
    /\ Len(scan_log) = 3
    /\ scan_log[1].outcome = "returned"
    /\ scan_log[2].outcome = "not_found"
    /\ scan_log[3].outcome = "not_a_directory"
    /\ Len(scan_results) >= 2

\* the image files of the model's file system, by name
ImageFileNames ==
    { << "2", ".", "p", "n", "g" >>, << "1", "0", ".", "P", "N", "G" >>,
      << "1", ".", "j", "p", "g" >>, << "3", ".", "p", "n", "g" >> }

\* the directories at or below the root of the last scan
ScannedDirs ==
    { n.path : n \in { m \in files :
        /\ m.dir
        /\ Len(m.path) >= Len(LastScan.root_path)
        /\ SubSeq(m.path, 1, Len(LastScan.root_path)) = LastScan.root_path } }

\* the image files directly in directory d
DirectImages(d) ==
    { n.path : n \in { m \in files :
        /\ ~m.dir
        /\ Len(m.path) = Len(d) + 1
        /\ SubSeq(m.path, 1, Len(d)) = d
        /\ m.path[Len(m.path)] \in ImageFileNames } }

\* C16: after a successful scan every recorded list is non-empty, a directory
\* without a direct image is no key of the result even when directories below
\* it hold images, and every directory with a direct image has its own key.
C16_ScanResultInvariant ==
    (scan_log # <<>> /\ LastScan.outcome = "returned") =>
        /\ \A i \in DOMAIN scan_results : scan_results[i].val # <<>>
        /\ \A d \in ScannedDirs :
                DictHas(scan_results, ScanKey(d, LastScan.root_path)) <=> DirectImages(d) # {}
        /\ \A d \in ScannedDirs :
                DirectImages(d) # {} =>
                    SeqSet(DictGet(scan_results, ScanKey(d, LastScan.root_path)))
                        = { PathStr(p) : p \in DirectImages(d) }
        /\ Len(scan_results) = Cardinality({ d \in ScannedDirs : DirectImages(d) # {} })

\* r/d holds no image itself, r/d/t below it does, r holds only the image whose
\* suffix is in capitals
C16_Witness ==
    /\ scan_log # <<>> /\ LastScan.outcome = "returned" /\ LastScan.root_path = RootDir
    /\ DirectImages(SubDir) = {} /\ DirectImages(DeepDir) # {}
    /\ DirectImages(RootDir) = { Append(RootDir, << "1", "0", ".", "P", "N", "G" >>) }
    /\ DictKeys(scan_results) = { << "r" >>, << "r", "/", "d", "/", "t" >> }

\* the regular files at any depth below the root of the last scan whose
\* lowercased extension is allowed
ImagesBelowRoot ==
    { n \in files :
        /\ ~n.dir
        /\ Len(n.path) > Len(LastScan.root_path)
        /\ SubSeq(n.path, 1, Len(LastScan.root_path)) = LastScan.root_path
        /\ n.path[Len(n.path)] \in ImageFileNames }

\* how many times the path string p occurs in the lists of the scan results
ScanOccurrences(p) ==
    Cardinality({ ij \in UNION { { << i, j >> : j \in DOMAIN scan_results[i].val } :
                                    i \in DOMAIN scan_results } :
                    scan_results[ij[1]].val[ij[2]] = p })

\* the path of directory d with the path of the root's parent cut off its front
KeyRelativeToParent(d) ==
    LET above == ParentParts(LastScan.root_path)
    IN  IF above = <<>> THEN PathStr(d)
        ELSE SubSeq(PathStr(d), Len(PathStr(above)) + 2, Len(PathStr(d)))

\* C25: after a successful scan every regular file at any depth below the root
\* whose lowercased extension is allowed occurs exactly once in the result, in
\* the list under the key of the directory that holds it, relative to the
\* root's parent; the result holds no other file.
C25_ScanCompleteness ==
    (scan_log # <<>> /\ LastScan.outcome = "returned") =>
        /\ \A n \in ImagesBelowRoot :
                LET key == KeyRelativeToParent(ParentParts(n.path))
                IN  /\ ScanOccurrences(PathStr(n.path)) = 1
                    /\ DictHas(scan_results, key)
                    /\ PathStr(n.path) \in SeqSet(DictGet(scan_results, key))
        /\ \A i \in DOMAIN scan_results :
                SeqSet(scan_results[i].val) \subseteq { PathStr(n.path) : n \in ImagesBelowRoot }

\* a scan of r/d in the full file system: the images of r/d and r/d/t are
\* found under the keys d and d/t, the images of r and the text file are not
C25_Witness ==
    /\ files = FileUniverse
    /\ scan_log # <<>> /\ LastScan.outcome = "returned" /\ LastScan.root_path = SubDir
    /\ DictKeys(scan_results) = { << "d" >>, << "d", "/", "t" >> }
    /\ Cardinality(ImagesBelowRoot) = 2

(***************************************************************************)
(* Properties of ConfigManager                                             *)
(***************************************************************************)
\* the stored pattern list
StoredPatterns == get_pdf_grouping_patterns(heap_records, heap_lists, config_patterns)

EnabledPositions == { i \in DOMAIN StoredPatterns : StoredPatterns[i].enabled }

\* out is the regex strings of the enabled records, in stored order
IsEnabledInOrder(out) ==
    /\ Len(out) = Cardinality(EnabledPositions)
    /\ \E f \in [DOMAIN out -> EnabledPositions] :
            /\ \A a, b \in DOMAIN out : a < b => f[a] < f[b]
            /\ \A a \in DOMAIN out : out[a] = StoredPatterns[f[a]].pattern

\* C19: whatever set, add, update and remove calls came before,
\* get_enabled_pdf_grouping_patterns returns the regex strings of the enabled
\* records in stored order (the empty list when none is enabled), and
\* get_pdf_grouping_pattern the first of them or the empty string.
C19_EnabledPatterns ==
    /\ config_call.op = "get_enabled" =>
            /\ IsEnabledInOrder(config_call.ret)
            /\ EnabledPositions = {} => config_call.ret = <<>>
    /\ config_call.op = "get_pattern" =>
            IF EnabledPositions = {} THEN config_call.ret = ""
            ELSE \E i \in EnabledPositions :
                    /\ \A j \in EnabledPositions : i <= j
                    /\ config_call.ret = StoredPatterns[i].pattern

\* after earlier calls, the getter leaves out a disabled record that stands
\* before an enabled one
C19_Witness ==
    /\ config_call.op = "get_enabled"
    /\ config_call.seq >= 3
    /\ Len(config_call.ret) >= 2
    /\ \E i, j \in DOMAIN StoredPatterns :
            i < j /\ ~StoredPatterns[i].enabled /\ StoredPatterns[j].enabled

\* what a field of the updated record must be
FieldAfter(old, arg) == IF arg # None THEN arg[1] ELSE old

\* C20: update_pdf_grouping_pattern returns True and changes only the supplied
\* fields of the (first) record with the id, leaving its other fields, every
\* other record and the list order as they were; with no record of that id it
\* returns False and changes nothing.
C20_UpdateFrame ==
    [][(config_call'.seq > config_call.seq /\ config_call'.op = "update") =>
        LET before == get_pdf_grouping_patterns(heap_records, heap_lists, config_patterns)
            after == get_pdf_grouping_patterns(heap_records', heap_lists', config_patterns')
            fields == config_call'.fields
            k == FirstWithId(before, config_call'.id)
        IN  IF k # 0
            THEN /\ config_call'.ret = TRUE
                 /\ Len(after) = Len(before)
                 /\ \A i \in DOMAIN before : i # k => after[i] = before[i]
                 /\ after[k].id = before[k].id
                 /\ after[k].label = FieldAfter(before[k].label, fields.label)
                 /\ after[k].pattern = FieldAfter(before[k].pattern, fields.pattern)
                 /\ after[k].description = FieldAfter(before[k].description, fields.description)
                 /\ after[k].enabled = FieldAfter(before[k].enabled, fields.enabled)
            ELSE /\ config_call'.ret = FALSE
                 /\ after = before
                 /\ heap_records' = heap_records
                 /\ heap_lists' = heap_lists]_vars

\* an update of the second of two records that gave the label and left the
\* enabled flag, which was on, alone
C20_Witness ==
    /\ config_call.op = "update" /\ config_call.ret = TRUE
    /\ config_call.fields.label # None /\ config_call.fields.enabled = None
    /\ Len(StoredPatterns) >= 2
    /\ FirstWithId(StoredPatterns, config_call.id) = 2
    /\ StoredPatterns[2].enabled
    /\ StoredPatterns[2].label = config_call.fields.label[1]

\* C21: a new ConfigManager built on the file save_config has just written
\* returns the pattern list the saving instance held: the same records in the
\* same order, with the same ids, patterns and enabled flags.
C21_SaveLoadRoundTrip ==
    [][(/\ config_call.op = "save"
        /\ config_call.ret = TRUE
        /\ config_call'.seq = config_call.seq + 1
        /\ config_call'.op = "load") =>
            get_pdf_grouping_patterns(heap_records', heap_lists', config_patterns')
                = get_pdf_grouping_patterns(heap_records, heap_lists, config_patterns)]_vars

\* a list of two records with different flags, one of them added by
\* add_pdf_grouping_pattern, has been saved and loaded into a new list object
C21_Witness ==
    /\ phase = "config"
    /\ config_call.op = "load"
    /\ config_file = SavedFile(StoredPatterns)
    /\ config_patterns = Len(heap_lists)
    /\ Len(StoredPatterns) = 2
    /\ StoredPatterns[2].id = "uuid-1"
    /\ StoredPatterns[1].enabled # StoredPatterns[2].enabled

\* C26: after reset_to_defaults, and after a ConfigManager is constructed on a
\* file that is missing or cannot be read, the pattern list is the single
\* record with id "default" and enabled false, whatever add, update or set
\* calls came before on any instance.
C26_DefaultsImmutable ==
    (\/ phase = "config" /\ config_call.op = "reset"
     \/ phase = "config" /\ config_call.op = "load" /\ config_file.kind # "json") =>
        StoredPatterns = << DefaultRecord >>

\* how many times x occurs in list
CountIn(list, x) == Cardinality({ k \in DOMAIN list : list[k] = x })

\* a and b hold the same elements the same number of times
IsPermutation(a, b) ==
    /\ Len(a) = Len(b)
    /\ \A x \in SeqSet(a) \cup SeqSet(b) : CountIn(a, x) = CountIn(b, x)

\* C29: after any sequence of reorder_images calls the stored list of each
\* folder is a permutation of the list the scan produced for it, and a call
\* that raises KeyError or ValueError leaves the stored lists as they were.
C29_ReorderPermutation ==
    /\ [](phase = "reorder" =>
            /\ DictKeys(scan_results) = DictKeys(ScanOf(files).scan_results)
            /\ \A i \in DOMAIN scan_results :
                    IsPermutation(scan_results[i].val,
                                  DictGet(ScanOf(files).scan_results, scan_results[i].key)))
    /\ [][(phase = "reorder" /\ reorder_call'.outcome \in { "KeyError", "ValueError" }) =>
                scan_results' = scan_results]_vars

RatAdd(a, b) == Rat(a.n * b.d + b.n * a.d, a.d * b.d)

\* a <= b
RatAtMost(a, b) == ~RatGreater(a, b)

OccurrencesIn(d, p) ==
    Cardinality({ ij \in UNION { { << i, j >> : j \in DOMAIN d[i].val } : i \in DOMAIN d } :
                    d[ij[1]].val[ij[2]] = p })

\* the images the scan found
FoundImages == UNION { SeqSet(scan_results[i].val) : i \in DOMAIN scan_results }

\* C27: after a scan in the application every image the scan found is in
\* exactly one entry of the application's group mapping, also when two
\* folders produce the same group name.
C27_NoGroupLost ==
    phase = "app_shown" =>
        \A img \in FoundImages : OccurrencesIn(app_scan_results, img) = 1

====
